---- MODULE Spec2Model ----
(***************************************************************************)
(* SecureTempMail: mail intake (handle_DATA), persistence pipeline         *)
(* (process_message, store_message, increment_message_count) and inbox     *)
(* provisioning (create_inbox) over the Durable Store (PostgreSQL rows)    *)
(* and the Fast Index (Redis keys with TTL).                               *)
(*                                                                         *)
(* Every await of the Python code is one action: between two awaits a      *)
(* coroutine runs alone, at an await any other session may run.  Every     *)
(* Redis or database call can raise; the raising branch of an action is    *)
(* the code's exception path.                                              *)
(***************************************************************************)
EXTENDS Integers, Sequences, FiniteSets, TLC

\* ------------------------------------------------------------------ bounds
\* concurrent SMTP sessions (one handle_DATA call each)
NDeliveries == 2
\* create_inbox calls (one generated inbox id each)
MaxInboxes == 1
\* the clock runs from 0 to MaxTime (hours)
MaxTime == 2
\* attachments extracted from one message: 0..MaxAttachments
MaxAttachments == 1
\* inboxes in the Durable Store when the cleanup worker starts
NExpiring == 2
\* the counters of the worker count up to MaxCycles and stay there
MaxCycles == 3
\* parts of a multipart message, the container not counted: 0..MaxParts
MaxParts == 3
\* characters of a plaintext given to the Crypto Vault: 0..MaxText
MaxText == 2
\* concurrent requests of one client IP
NCallers == 2

\* ------------------------------------------------------- program constants
MAX_EMAILS_PER_INBOX == 1
MAX_EMAIL_SIZE_MB == 10
DEFAULT_TTL_HOURS == 1
CLEANUP_BATCH_SIZE == 2
RATE_LIMIT_PER_MINUTE == 60
RATE_LIMIT_PER_HOUR == 1000
INBOX_CREATION_LIMIT_PER_HOUR == 10
\* create_inbox: address regenerations before the insert is attempted
AddressRetries == 5

\* Settings.max_email_size_bytes
max_email_size_bytes == MAX_EMAIL_SIZE_MB * 1024 * 1024

\* ------------------------------------------------------------- value sets
Deliveries == 1..NDeliveries
\* generate_inbox_id(): a fresh UUID per call, here "i1", "i2", ...
InboxIds == {"i" \o ToString(n) : n \in 1..MaxInboxes}
\* the inboxes of a Durable Store in which inboxes are about to expire
ExpiringIds == {"i" \o ToString(n) : n \in 1..NExpiring}
\* generate_inbox_address(): lower-case local part @ domain
Addresses == {"a1", "a2"}
\* what a sender may put in RCPT TO: the addresses, in any letter case
RcptStrings == Addresses \cup {"A1"}
\* str.lower() on a recipient
Lower(s) == IF s = "A1" THEN "a1" ELSE s
\* envelope.rcpt_tos values offered to handle_DATA
RcptLists == {<<>>, <<"a1">>, <<"A1", "a2">>}
\* len(envelope.content) values offered to handle_DATA
Sizes == {max_email_size_bytes, max_email_size_bytes + 1}

None == "None"
NoTTL == -1

\* ------------------------------------------------------- SMTP responses
R250 == "250 Message accepted for delivery"
R554 == "554 No valid recipients"
R550 == "550 Recipient not found or expired"
R552Quota == "552 Inbox quota exceeded"
R552Size == "552 Message size exceeds maximum"
R451Parse == "451 Error parsing message"
R451Processing == "451 Requested action aborted: error in processing"
R451Server == "451 Temporary server error"

\* the numeric reply code of a response line
Code(r) ==
    CASE r = R250 -> 250
      [] r = R554 -> 554
      [] r = R550 -> 550
      [] r \in {R552Quota, R552Size} -> 552
      [] r \in {R451Parse, R451Processing, R451Server} -> 451

VARIABLES
    now,          \* datetime.utcnow(), in hours
    inboxes,      \* Durable Store: inbox id -> Inbox row
    messages,     \* Durable Store: set of Message rows
    attachments,  \* Durable Store: set of Attachment rows
    redis,        \* Fast Index: key -> [v |-> value, exp |-> expiry instant]
    cpc,          \* create_inbox call of inbox id i: position
    clocal,       \* create_inbox call: local variables
    pc,           \* handle_DATA call d: position
    envelope,     \* handle_DATA call d: the SMTP envelope
    local,        \* handle_DATA call d: local variables
    response,     \* handle_DATA call d: the returned response line
    trace,        \* handle_DATA call d: checks and steps performed so far
    wpc,          \* TTLCleanupWorker: position in start() / _run_cleanup()
    wlocal,       \* TTLCleanupWorker: self.running and the locals of a cycle
    metrics,      \* Prometheus counters of the worker
    apc,          \* API call c: position
    alocal,       \* API call c: local variables
    hist,         \* history: what the deleters have done so far
    mime,         \* EmailProcessor: the parsed message and what was extracted
    vault,        \* EncryptionService: the values of an encrypt/decrypt run
    reader,       \* message endpoints: the request in flight and its reply
    limiter,      \* rate-limit dependencies: the requests in flight
    smtp          \* handle_DATA call d: what the SMTP transport gets back

vars == <<now, inboxes, messages, attachments, redis, cpc, clocal,
          pc, envelope, local, response, trace,
          wpc, wlocal, metrics, apc, alocal, hist, mime, vault,
          reader, limiter, smtp>>

durable == <<inboxes, messages, attachments>>
stores == <<inboxes, messages, attachments, redis>>
creators == <<cpc, clocal>>
sessions == <<pc, envelope, local, response, trace, smtp>>
worker == <<wpc, wlocal, metrics>>
api == <<apc, alocal>>
janitors == <<wpc, wlocal, metrics, apc, alocal, hist>>
clients == <<reader, limiter>>
content == <<mime, vault, reader, limiter>>

\* --------------------------------------------------------- Fast Index ops
\* a key is readable until its TTL runs out
Live(k) == k \in DOMAIN redis /\ (redis[k].exp = NoTTL \/ now < redis[k].exp)
\* redis.get(k): None for a key that is not readable, else its value
RedisGetIsNone(k) == ~Live(k)
RedisGet(k) == redis[k].v
\* redis.setex(k, ttl, v)
RedisSetex(k, ttl, v) == (k :> [v |-> v, exp |-> now + ttl]) @@ redis
\* redis.delete(k)
RedisDelete(k) == [x \in DOMAIN redis \ {k} |-> redis[x]]
\* redis.incr(k): an absent key counts from 0 and gets no TTL
RedisIncr(k) ==
    IF Live(k)
    THEN (k :> [v |-> redis[k].v + 1, exp |-> redis[k].exp]) @@ redis
    ELSE (k :> [v |-> 1, exp |-> NoTTL]) @@ redis

AddrKey(a) == "inbox:" \o a
IdKey(i) == "inbox:id:" \o i
CountKey(a) == "inbox:count:" \o a

\* ------------------------------------------------------ Durable Store ops
\* InboxService.get_inbox: None for an absent or expired row, else the row
GetInboxIsNone(i) == i \notin DOMAIN inboxes \/ inboxes[i].expires_at < now
GetInbox(i) == inboxes[i]
\* InboxService._address_exists
AddressExists(a) == \E i \in DOMAIN inboxes : inboxes[i].address = a
MessagesOf(i) == {m \in messages : m.inbox_id = i}
AttachmentsOf(mid) == {t \in attachments : t.message_id = mid}

NoLocal == [recipient |-> None, inbox_id |-> None, address |-> None,
            message_count |-> 0, natt |-> 0, error |-> None]

\* the API operations that delete rows, one call of each in flight at a time
ApiCalls == {"delete_inbox", "trigger_cleanup", "delete_message"}

\* TTLCleanupWorker after __init__: batch_size from the settings, running
\* = False and no cycle begun.  The locals of _run_cleanup: now, the rows
\* of expired_inboxes (id -> loaded Inbox object), the rows the for loop
\* has still to visit, the loop variable inbox, the objects the session
\* holds as deleted, and whether the session's database transaction is
\* aborted.
NoWorker == [batch_size |-> CLEANUP_BATCH_SIZE, running |-> FALSE, now |-> 0,
             rows |-> <<>>, todo |-> {}, inbox |-> None, deleted |-> {},
             aborted |-> FALSE]
NoMetrics == [worker_cleanup_runs_total |-> 0, worker_errors_total |-> 0]
NoApiLocal == [inbox_id |-> None, address |-> None, expired |-> {}, todo |-> {},
               message_id |-> 0]
\* nothing purged yet, no reaper cycle ended yet:
\*   purged  the Inbox rows deleted from the Durable Store, by any deleter
\*   reaped  the Inbox rows whose deletion a reaper cycle has committed
\*   absent  the purged rows as of the SELECT of the current reaper cycle
\*   gone1   rows purged before the SELECT of a cycle that has completed
\*   gone2   rows purged before the SELECT of two cycles that have completed
\*   failed  the cycles that ended with an exception
\*   faulted the inboxes of the current cycle in whose processing an
\*           exception arose that no earlier failure had caused
NoHist == [purged |-> {}, reaped |-> {}, absent |-> {}, gone1 |-> {},
           gone2 |-> {}, failed |-> 0, faulted |-> {}]

\* no message under the processor, no value under the Crypto Vault
NoMime == [step |-> "none"]
NoVault == [step |-> "none"]

\* no reply written yet.  A reply is the status line, the "error" code and
\* the "detail" of the JSON body (None when the body has none), the list
\* of previews of list_messages and the two bodies of a MessageDetail.
NoReply == [status |-> "none", error |-> "", detail |-> {}, previews |-> {},
            body_html |-> {}, body_text |-> {}]
\* no request at the message endpoints: inbox_id is what get_current_inbox
\* returned, before the Message rows when the request came in, failed
\* whether a decrypt of the request has raised
NoReader == [pc |-> "idle", op |-> "none", inbox_id |-> None, message_id |-> 0,
             before |-> {}, failed |-> FALSE, body_html |-> {},
             body_text |-> {}, reply |-> NoReply]

\* the requests of one client IP under the rate-limit dependencies
Callers == 1..NCallers
\* no request in flight and none let through yet: per request its position,
\* the dependency it runs and what it returned; per dependency the number
\* of requests that returned True since the counter key was created
NoLimiter == [pc |-> [c \in Callers |-> "idle"],
              dependency |-> [c \in Callers |-> "none"],
              result |-> [c \in Callers |-> "none"],
              passed_rate |-> 0, passed_creation |-> 0]

\* handle_DATA not entered yet: nothing recorded, nothing handed back to
\* the SMTP transport
NoSmtp == [d \in Deliveries |-> [at |-> "entry", line |-> None]]

\* worker constructed and not started, no API call in flight
JanitorsInit ==
    /\ wpc = "init"
    /\ wlocal = NoWorker
    /\ metrics = NoMetrics
    /\ apc = [c \in ApiCalls |-> "idle"]
    /\ alocal = [c \in ApiCalls |-> NoApiLocal]
    /\ hist = NoHist
    /\ mime = NoMime
    /\ vault = NoVault
    /\ reader = NoReader
    /\ limiter = NoLimiter
    /\ smtp = NoSmtp

\* the locals of a create_inbox call that has not begun
NoCreateLocal == [address |-> None, ttl |-> 0, retries |-> 0]

Init ==
    /\ now = 0
    /\ inboxes = <<>>
    /\ messages = {}
    /\ attachments = {}
    /\ redis = <<>>
    /\ cpc = [i \in InboxIds |-> "idle"]
    /\ clocal = [i \in InboxIds |-> NoCreateLocal]
    /\ pc = [d \in Deliveries |-> "idle"]
    /\ envelope = [d \in Deliveries |-> [rcpt_tos |-> <<>>, size |-> 0]]
    /\ local = [d \in Deliveries |-> NoLocal]
    /\ response = [d \in Deliveries |-> None]
    /\ trace = [d \in Deliveries |-> <<>>]
    /\ JanitorsInit

\* ------------------------------------------------------------- the clock
Tick ==
    /\ now < MaxTime
    /\ now' = now + 1
    /\ UNCHANGED <<stores, creators, sessions, janitors, content>>

\* ---------------------------------------------------------- create_inbox
\* create_inbox entry: ttl = ttl_hours or DEFAULT_TTL_HOURS, a fresh inbox
\* id, a generated address, retries = 0
CreateInbox(i) ==
    /\ cpc[i] = "idle"
    /\ \E a \in Addresses :
         clocal' = [clocal EXCEPT ![i] =
                      [address |-> a, ttl |-> DEFAULT_TTL_HOURS, retries |-> 0]]
    /\ cpc' = [cpc EXCEPT ![i] = "address_exists"]
    /\ UNCHANGED <<now, stores, sessions, janitors, content>>

\* while await self._address_exists(address) and retries < 5: a new
\* address is generated and retries counted; the query may raise
CreateInboxAddressExists(i) ==
    /\ cpc[i] = "address_exists"
    /\ \E raised \in BOOLEAN :
         IF raised
         THEN /\ cpc' = [cpc EXCEPT ![i] = "failed"]
              /\ UNCHANGED clocal
         ELSE IF AddressExists(clocal[i].address) /\ clocal[i].retries < AddressRetries
         THEN /\ \E a \in Addresses :
                   clocal' = [clocal EXCEPT ![i].address = a,
                                            ![i].retries = @ + 1]
              /\ UNCHANGED cpc
         ELSE /\ cpc' = [cpc EXCEPT ![i] = "commit"]
              /\ UNCHANGED clocal
    /\ UNCHANGED <<now, stores, sessions, janitors, content>>

\* a commit on a table without the unique index on inboxes.address
CreateInboxCommit_NoUniqueIndex(i) ==
    /\ cpc[i] = "commit"
    /\ \E ok \in BOOLEAN :
         IF ok
         THEN /\ inboxes' = (i :> [address |-> clocal[i].address,
                                    created_at |-> now,
                                    expires_at |-> now + clocal[i].ttl,
                                    is_active |-> TRUE, message_count |-> 0])
                             @@ inboxes
              /\ cpc' = [cpc EXCEPT ![i] = "setex_addr"]
         ELSE /\ cpc' = [cpc EXCEPT ![i] = "failed"]
              /\ UNCHANGED inboxes
    /\ UNCHANGED <<now, messages, attachments, redis, clocal, sessions,
                 janitors, content>>

\* db.add(inbox); db.commit(): the row is stored unless the unique index
\* on inboxes.address or the database refuses it
CreateInboxCommit(i) ==
    /\ cpc[i] = "commit"
    /\ \E ok \in BOOLEAN :
         IF ok /\ ~AddressExists(clocal[i].address)
         THEN /\ inboxes' = (i :> [address |-> clocal[i].address,
                                    created_at |-> now,
                                    expires_at |-> now + clocal[i].ttl,
                                    is_active |-> TRUE, message_count |-> 0])
                             @@ inboxes
              /\ cpc' = [cpc EXCEPT ![i] = "setex_addr"]
         ELSE /\ cpc' = [cpc EXCEPT ![i] = "failed"]
              /\ UNCHANGED inboxes
    /\ UNCHANGED <<now, messages, attachments, redis, clocal, sessions,
                 janitors, content>>

\* db.refresh(inbox); redis.setex("inbox:<address>", ttl_seconds, inbox_id)
CreateInboxSetexAddr(i) ==
    /\ cpc[i] = "setex_addr"
    /\ \E ok \in BOOLEAN :
         IF ok
         THEN /\ redis' = RedisSetex(AddrKey(clocal[i].address), clocal[i].ttl, i)
              /\ cpc' = [cpc EXCEPT ![i] = "setex_id"]
         ELSE /\ cpc' = [cpc EXCEPT ![i] = "failed"]
              /\ UNCHANGED redis
    /\ UNCHANGED <<now, durable, clocal, sessions, janitors, content>>

\* redis.setex("inbox:id:<inbox_id>", ttl_seconds, address)
CreateInboxSetexId(i) ==
    /\ cpc[i] = "setex_id"
    /\ \E ok \in BOOLEAN :
         IF ok
         THEN /\ redis' = RedisSetex(IdKey(i), clocal[i].ttl, clocal[i].address)
              /\ cpc' = [cpc EXCEPT ![i] = "done"]
         ELSE /\ cpc' = [cpc EXCEPT ![i] = "failed"]
              /\ UNCHANGED redis
    /\ UNCHANGED <<now, durable, clocal, sessions, janitors, content>>

\* ----------------------------------------------------------- handle_DATA
\* a session that returns: the response line and the exception, if any,
\* that decided it; the locals of the call are gone
Return(d, r, err) ==
    /\ response' = [response EXCEPT ![d] = r]
    /\ local' = [local EXCEPT ![d] = [NoLocal EXCEPT !.error = err]]
    /\ pc' = [pc EXCEPT ![d] = "done"]

\* handle_DATA with the size check ahead of the quota check
AfterCheck_SizeBeforeQuota(check) ==
    CASE check = "no_recipients" -> "validate_recipient"
      [] check = "unknown_recipient" -> "message_size"
      [] check = "oversize" -> "check_inbox_quota"
      [] check = "quota" -> "parse"
      [] check = "parse" -> "process_message"

\* the position of handle_DATA after a check has passed
AfterCheck(check) ==
    CASE check = "no_recipients" -> "validate_recipient"
      [] check = "unknown_recipient" -> "check_inbox_quota"
      [] check = "quota" -> "message_size"
      [] check = "oversize" -> "parse"
      [] check = "parse" -> "process_message"

\* the size check with >= for >
TooLarge_AtLimit(message_size) == message_size >= max_email_size_bytes

\* message_size > self._max_message_size()
TooLarge(message_size) == message_size > max_email_size_bytes

\* the quota comparison with <= for <
WithinQuota_AtLimit(count) == count <= MAX_EMAILS_PER_INBOX

\* int(count) < self._max_emails_per_inbox()
WithinQuota(count) == count < MAX_EMAILS_PER_INBOX

\* handle_DATA taking the last recipient of the envelope
HandleDATA_LastRecipient(d) ==
    /\ pc[d] = "idle"
    /\ \E rcpts \in RcptLists, size \in Sizes :
         /\ envelope' = [envelope EXCEPT ![d] = [rcpt_tos |-> rcpts, size |-> size]]
         /\ trace' = [trace EXCEPT ![d] = Append(@, "no_recipients")]
         /\ IF rcpts = <<>>
            THEN Return(d, R554, None)
            ELSE /\ local' = [local EXCEPT ![d].recipient = Lower(rcpts[Len(rcpts)])]
                 /\ pc' = [pc EXCEPT ![d] = AfterCheck("no_recipients")]
                 /\ UNCHANGED response
    /\ UNCHANGED <<now, stores, creators, janitors, smtp, content>>

\* handle_DATA entry: the envelope arrives; no recipients -> 554;
\* recipient = envelope.rcpt_tos[0].lower()
HandleDATA(d) ==
    /\ pc[d] = "idle"
    /\ \E rcpts \in RcptLists, size \in Sizes :
         /\ envelope' = [envelope EXCEPT ![d] = [rcpt_tos |-> rcpts, size |-> size]]
         /\ trace' = [trace EXCEPT ![d] = Append(@, "no_recipients")]
         /\ IF rcpts = <<>>
            THEN Return(d, R554, None)
            ELSE /\ local' = [local EXCEPT ![d].recipient = Lower(rcpts[1])]
                 /\ pc' = [pc EXCEPT ![d] = AfterCheck("no_recipients")]
                 /\ UNCHANGED response
    /\ UNCHANGED <<now, stores, creators, janitors, smtp, content>>

\* _validate_recipient: redis.get("inbox:<recipient>") is not None;
\* a Redis exception is caught and answered False
ValidateRecipient(d) ==
    /\ pc[d] = "validate_recipient"
    /\ trace' = [trace EXCEPT ![d] = Append(@, "unknown_recipient")]
    /\ \E raised \in BOOLEAN :
         IF raised \/ RedisGetIsNone(AddrKey(local[d].recipient))
         THEN Return(d, R550, IF raised THEN "redis" ELSE None)
         ELSE /\ pc' = [pc EXCEPT ![d] = AfterCheck("unknown_recipient")]
              /\ UNCHANGED <<response, local>>
    /\ UNCHANGED <<now, stores, creators, janitors, envelope, smtp, content>>

\* a quota check that reserves its slot: INCR at admission
CheckInboxQuota_Reserve(d) ==
    /\ pc[d] = "check_inbox_quota"
    /\ trace' = [trace EXCEPT ![d] = Append(@, "quota")]
    /\ \E raised \in BOOLEAN :
         LET key == CountKey(local[d].recipient) IN
         IF raised \/ RedisGetIsNone(key) \/ WithinQuota(RedisGet(key))
         THEN /\ pc' = [pc EXCEPT ![d] = AfterCheck("quota")]
              /\ redis' = IF raised THEN redis ELSE RedisIncr(key)
              /\ UNCHANGED <<response, local>>
         ELSE Return(d, R552Quota, None) /\ UNCHANGED redis
    /\ UNCHANGED <<now, durable, creators, janitors, envelope, smtp, content>>

\* _check_inbox_quota: redis.get("inbox:count:<recipient>"); an absent
\* counter and a Redis exception both admit the message
CheckInboxQuota(d) ==
    /\ pc[d] = "check_inbox_quota"
    /\ trace' = [trace EXCEPT ![d] = Append(@, "quota")]
    /\ \E raised \in BOOLEAN :
         LET key == CountKey(local[d].recipient) IN
         IF raised \/ RedisGetIsNone(key) \/ WithinQuota(RedisGet(key))
         THEN /\ pc' = [pc EXCEPT ![d] = AfterCheck("quota")]
              /\ UNCHANGED <<response, local>>
         ELSE Return(d, R552Quota, None)
    /\ UNCHANGED <<now, stores, creators, janitors, envelope, smtp, content>>

\* message_size = len(envelope.content); over the maximum -> 552
ValidateMessageSize(d) ==
    /\ pc[d] = "message_size"
    /\ trace' = [trace EXCEPT ![d] = Append(@, "oversize")]
    /\ IF TooLarge(envelope[d].size)
       THEN Return(d, R552Size, None)
       ELSE /\ pc' = [pc EXCEPT ![d] = AfterCheck("oversize")]
            /\ UNCHANGED <<response, local>>
    /\ UNCHANGED <<now, stores, creators, janitors, envelope, smtp, content>>

\* BytesParser.parsebytes(envelope.content); an exception -> 451
ParseMessage(d) ==
    /\ pc[d] = "parse"
    /\ trace' = [trace EXCEPT ![d] = Append(@, "parse")]
    /\ \E raised \in BOOLEAN :
         IF raised
         THEN Return(d, R451Parse, "parse")
         ELSE /\ pc' = [pc EXCEPT ![d] = AfterCheck("parse")]
              /\ UNCHANGED <<response, local>>
    /\ UNCHANGED <<now, stores, creators, janitors, envelope, smtp, content>>

\* ------------------------------------------------------- process_message
\* an exception of process_message, as handle_DATA answers it
Abort(d, err) == Return(d, R451Processing, err)

\* process_message up to store_message: redis.get("inbox:<recipient>")
\* gives the inbox id (absent -> ValueError), then the parts are extracted
ProcessMessage(d) ==
    /\ pc[d] = "process_message"
    /\ trace' = [trace EXCEPT ![d] = Append(@, "processing")]
    /\ \E raised \in BOOLEAN, natt \in 0..MaxAttachments :
         LET key == AddrKey(local[d].recipient) IN
         IF raised THEN Abort(d, "redis")
         ELSE IF RedisGetIsNone(key) THEN Abort(d, "inbox_not_found")
         ELSE /\ local' = [local EXCEPT ![d].inbox_id = RedisGet(key),
                                        ![d].natt = natt]
              /\ pc' = [pc EXCEPT ![d] = "store_message"]
              /\ UNCHANGED response
    /\ UNCHANGED <<now, stores, creators, janitors, envelope, smtp, content>>

\* the Message row store_message builds
MessageRow(d) ==
    [id |-> d, inbox_id |-> local[d].inbox_id, to_address |-> "",
     size_bytes |-> envelope[d].size, has_attachments |-> local[d].natt > 0,
     is_read |-> FALSE]
\* the Attachment rows store_message builds
AttachmentRows(d) ==
    {[id |-> <<d, n>>, message_id |-> d] : n \in 1..local[d].natt}

\* store_message up to db.commit(): sanitize, encrypt, add the Message and
\* its Attachments, commit them in one transaction.  The Crypto Vault or
\* the database may raise; messages.inbox_id is a foreign key.
StoreMessage(d) ==
    /\ pc[d] = "store_message"
    /\ \E outcome \in {"ok", "crypto", "db"} :
         IF outcome # "ok" THEN Abort(d, outcome) /\ UNCHANGED <<durable, trace>>
         ELSE IF local[d].inbox_id \notin DOMAIN inboxes
         THEN Abort(d, "db") /\ UNCHANGED <<durable, trace>>
         ELSE /\ messages' = messages \cup {MessageRow(d)}
              /\ attachments' = attachments \cup AttachmentRows(d)
              /\ trace' = [trace EXCEPT ![d] = Append(@, "store_message")]
              /\ pc' = [pc EXCEPT ![d] = "refresh"]
              /\ UNCHANGED <<inboxes, response, local>>
    /\ UNCHANGED <<now, redis, creators, janitors, envelope, smtp, content>>

\* store_message after the commit: db.refresh(message)
RefreshMessage(d) ==
    /\ pc[d] = "refresh"
    /\ \E raised \in BOOLEAN :
         IF raised \/ MessageRow(d) \notin messages
         THEN Abort(d, "db")
         ELSE /\ pc' = [pc EXCEPT ![d] = "get_inbox"]
              /\ UNCHANGED <<response, local>>
    /\ UNCHANGED <<now, stores, creators, janitors, envelope, trace, smtp, content>>

\* increment_message_count: inbox = get_inbox(inbox_id); absent or expired
\* -> InboxNotFoundException.  The row's values are now in the session.
IncrementGetInbox(d) ==
    /\ pc[d] = "get_inbox"
    /\ \E raised \in BOOLEAN :
         IF raised THEN Abort(d, "db")
         ELSE IF GetInboxIsNone(local[d].inbox_id) THEN Abort(d, "inbox_not_found")
         ELSE /\ local' = [local EXCEPT
                   ![d].message_count = GetInbox(local[d].inbox_id).message_count,
                   ![d].address = GetInbox(local[d].inbox_id).address]
              /\ pc' = [pc EXCEPT ![d] = "count_commit"]
              /\ UNCHANGED response
    /\ UNCHANGED <<now, stores, creators, janitors, envelope, trace, smtp, content>>

\* the value the ORM writes: inbox.message_count += 1 on the loaded row
NewMessageCount(d) == local[d].message_count + 1

\* increment_message_count: inbox.message_count += 1; db.commit().  The
\* UPDATE sets the value computed from the row as it was read.
IncrementCommit(d) ==
    /\ pc[d] = "count_commit"
    /\ \E raised \in BOOLEAN :
         IF raised \/ local[d].inbox_id \notin DOMAIN inboxes
         THEN Abort(d, "db") /\ UNCHANGED <<inboxes, trace>>
         ELSE /\ inboxes' = [inboxes EXCEPT
                   ![local[d].inbox_id].message_count = NewMessageCount(d)]
              /\ trace' = [trace EXCEPT ![d] = Append(@, "message_count")]
              /\ pc' = [pc EXCEPT ![d] = "redis_incr"]
              /\ UNCHANGED <<response, local>>
    /\ UNCHANGED <<now, messages, attachments, redis, creators, janitors,
                 envelope, smtp, content>>

\* increment_message_count: redis.incr("inbox:count:<address>"), then
\* process_message returns and handle_DATA answers 250
IncrementRedis(d) ==
    /\ pc[d] = "redis_incr"
    /\ \E raised \in BOOLEAN :
         IF raised
         THEN Abort(d, "redis") /\ UNCHANGED <<redis, trace>>
         ELSE /\ redis' = RedisIncr(CountKey(local[d].address))
              /\ trace' = [trace EXCEPT ![d] = Append(@, "redis_incr")]
              /\ Return(d, R250, None)
    /\ UNCHANGED <<now, durable, creators, janitors, envelope, smtp, content>>

\* ------------------------------------------------------------------ Spec
Next ==
    \/ Tick
    \/ \E i \in InboxIds : CreateInbox(i)
    \/ \E i \in InboxIds : CreateInboxAddressExists(i)
    \/ \E i \in InboxIds : CreateInboxCommit(i)
    \/ \E i \in InboxIds : CreateInboxSetexAddr(i)
    \/ \E i \in InboxIds : CreateInboxSetexId(i)
    \/ \E d \in Deliveries : HandleDATA(d)
    \/ \E d \in Deliveries : ValidateRecipient(d)
    \/ \E d \in Deliveries : CheckInboxQuota(d)
    \/ \E d \in Deliveries : ValidateMessageSize(d)
    \/ \E d \in Deliveries : ParseMessage(d)
    \/ \E d \in Deliveries : ProcessMessage(d)
    \/ \E d \in Deliveries : StoreMessage(d)
    \/ \E d \in Deliveries : RefreshMessage(d)
    \/ \E d \in Deliveries : IncrementGetInbox(d)
    \/ \E d \in Deliveries : IncrementCommit(d)
    \/ \E d \in Deliveries : IncrementRedis(d)

Spec == Init /\ [][Next]_vars

\* ------------------------------------------------------------ SpecIntake
\* The mail intake alone: create_inbox has returned for one inbox (row and
\* both Fast Index keys in place) and NDeliveries SMTP sessions deliver
\* concurrently; no inbox is provisioned meanwhile and the clock stands.
ProvisionedId == "i" \o ToString(1)
ProvisionedAddress == "a1"

InitIntake ==
    /\ now = 0
    /\ inboxes = (ProvisionedId :>
                    [address |-> ProvisionedAddress, created_at |-> 0,
                     expires_at |-> DEFAULT_TTL_HOURS, is_active |-> TRUE,
                     message_count |-> 0])
    /\ messages = {}
    /\ attachments = {}
    /\ redis = (AddrKey(ProvisionedAddress) :>
                    [v |-> ProvisionedId, exp |-> DEFAULT_TTL_HOURS])
               @@ (IdKey(ProvisionedId) :>
                    [v |-> ProvisionedAddress, exp |-> DEFAULT_TTL_HOURS])
    /\ cpc = [i \in InboxIds |-> IF i = ProvisionedId THEN "done" ELSE "idle"]
    /\ clocal = [i \in InboxIds |->
                   IF i = ProvisionedId
                   THEN [address |-> ProvisionedAddress,
                         ttl |-> DEFAULT_TTL_HOURS, retries |-> 0]
                   ELSE NoCreateLocal]
    /\ pc = [d \in Deliveries |-> "idle"]
    /\ envelope = [d \in Deliveries |-> [rcpt_tos |-> <<>>, size |-> 0]]
    /\ local = [d \in Deliveries |-> NoLocal]
    /\ response = [d \in Deliveries |-> None]
    /\ trace = [d \in Deliveries |-> <<>>]
    /\ JanitorsInit

NextIntake ==
    \/ \E d \in Deliveries : HandleDATA(d)
    \/ \E d \in Deliveries : ValidateRecipient(d)
    \/ \E d \in Deliveries : CheckInboxQuota(d)
    \/ \E d \in Deliveries : ValidateMessageSize(d)
    \/ \E d \in Deliveries : ParseMessage(d)
    \/ \E d \in Deliveries : ProcessMessage(d)
    \/ \E d \in Deliveries : StoreMessage(d)
    \/ \E d \in Deliveries : RefreshMessage(d)
    \/ \E d \in Deliveries : IncrementGetInbox(d)
    \/ \E d \in Deliveries : IncrementCommit(d)
    \/ \E d \in Deliveries : IncrementRedis(d)

SpecIntake == InitIntake /\ [][NextIntake]_vars

\* ------------------------------------------------------ deleting rows
\* DELETE of Inbox rows: ON DELETE CASCADE removes the Message rows of the
\* inboxes and the Attachment rows of those messages in the same statement
InboxesWithout(D) == [i \in DOMAIN inboxes \ D |-> inboxes[i]]
\* a DELETE that leaves the Message rows of the inboxes behind
MessagesWithout_NoCascade(D) == messages
MessagesWithout(D) == {m \in messages : m.inbox_id \notin D}
AttachmentsWithout(D) ==
    {t \in attachments : \E m \in MessagesWithout(D) : m.id = t.message_id}
\* the rows of D that are in the Durable Store, as the history records them
PurgedRows(D) ==
    {[id |-> i, address |-> inboxes[i].address] : i \in D \cap DOMAIN inboxes}

\* ------------------------------------------------------ TTLCleanupWorker
\* the positions inside _run_cleanup
InCycle == {"select", "count_messages", "delete_addr_key", "delete_id_key",
            "delete_count_key", "db_delete", "commit"}
\* the positions at which start() has ended
WorkerEnded == {"exited", "stopped", "cancelled"}

\* start(): self.running = True; redis.ping(), sys.exit(1) if it raises
WorkerStart ==
    /\ wpc = "init"
    /\ wlocal' = [wlocal EXCEPT !.running = TRUE]
    /\ \E raised \in BOOLEAN :
         wpc' = IF raised THEN "exited" ELSE "loop"
    /\ UNCHANGED <<now, stores, creators, sessions, metrics, api, hist,
                 content>>

\* Counter.inc()
Inc(n) == IF n < MaxCycles THEN n + 1 ELSE n

\* while self.running: _run_cleanup begins (worker_cleanup_runs_total.inc(),
\* a new session); the loop left: redis.close()
WorkerLoop ==
    /\ wpc = "loop"
    /\ IF wlocal.running
       THEN /\ metrics' = [metrics EXCEPT !.worker_cleanup_runs_total = Inc(@)]
            /\ wlocal' = [NoWorker EXCEPT !.running = TRUE,
                                          !.batch_size = wlocal.batch_size]
            /\ wpc' = "select"
       ELSE /\ wpc' = "stopped"
            /\ UNCHANGED <<metrics, wlocal>>
    /\ UNCHANGED <<now, stores, creators, sessions, api, hist, content>>

\* the reaper selecting the inboxes that expire at 'now' as well
Expired_AtNow(t) == {i \in DOMAIN inboxes : inboxes[i].expires_at <= t}

\* Inbox.expires_at < now
Expired(t) == {i \in DOMAIN inboxes : inboxes[i].expires_at < t}

\* .limit(n): n of the rows, all of them if there are fewer
Limit(S, n) ==
    {B \in SUBSET S :
        Cardinality(B) = IF Cardinality(S) < n THEN Cardinality(S) ELSE n}

\* the number n of the inbox id "i<n>"
IdNumber(i) == CHOOSE n \in 1..(NExpiring + MaxInboxes) : i = "i" \o ToString(n)
\* the first of the rows of a result, which come in the order of their ids
First(S) == CHOOSE i \in S : \A j \in S : IdNumber(i) <= IdNumber(j)

\* for inbox in expired_inboxes: the next row, or db.commit() after the last
ReaperContinue(w) ==
    IF w.todo = {}
    THEN /\ wlocal' = [w EXCEPT !.inbox = None]
         /\ wpc' = "commit"
    ELSE /\ wlocal' = [w EXCEPT !.inbox = First(w.todo), !.todo = @ \ {First(w.todo)}]
         /\ wpc' = "count_messages"

\* a cycle ends with an exception: _run_cleanup re-raises to start()
CycleFailed ==
    /\ wpc' = "cycle_failed"
    /\ hist' = [hist EXCEPT !.failed = Inc(@)]

\* the history after an exception arose in the processing of inbox i
Faulted(i) == [hist EXCEPT !.faulted = @ \cup {i}]

\* now = utcnow(); select(Inbox).where(expires_at < now).limit(batch_size)
ReaperSelect ==
    /\ wpc = "select"
    /\ \E raised \in BOOLEAN :
         IF raised
         THEN CycleFailed /\ UNCHANGED wlocal
         ELSE /\ \E batch \in Limit(Expired(now), wlocal.batch_size) :
                   ReaperContinue([wlocal EXCEPT
                       !.now = now,
                       !.rows = [i \in batch |-> inboxes[i]],
                       !.todo = batch])
              /\ hist' = [hist EXCEPT !.absent = hist.purged, !.faulted = {}]
    /\ UNCHANGED <<now, stores, creators, sessions, metrics, api, content>>

\* select(Message).where(inbox_id == inbox.id), counted for the metrics.
\* An exception is caught by the per-inbox handler (log, continue); if it
\* was a database error the session's transaction is aborted, and in an
\* aborted transaction every statement raises.
ReaperCountMessages ==
    /\ wpc = "count_messages"
    /\ \E raised \in BOOLEAN :
         IF raised \/ wlocal.aborted
         THEN /\ \E aborted \in BOOLEAN :
                   ReaperContinue([wlocal EXCEPT !.aborted = @ \/ aborted])
              /\ hist' = IF raised THEN Faulted(wlocal.inbox) ELSE hist
         ELSE /\ wpc' = "delete_addr_key"
              /\ UNCHANGED <<wlocal, hist>>
    /\ UNCHANGED <<now, stores, creators, sessions, metrics, api, content>>

\* the three Fast Index keys of the loaded inbox, in the order of deletion
KeySteps == <<"delete_addr_key", "delete_id_key", "delete_count_key">>
ReaperKey(n) ==
    LET row == wlocal.rows[wlocal.inbox] IN
    CASE n = 1 -> AddrKey(row.address)
      [] n = 2 -> IdKey(wlocal.inbox)
      [] n = 3 -> CountKey(row.address)

\* redis.delete(key) number n of the inbox; an exception skips the keys
\* that follow (logged as a warning only)
ReaperDeleteKey(n) ==
    /\ wpc = KeySteps[n]
    /\ \E raised \in BOOLEAN :
         IF raised
         THEN /\ wpc' = "db_delete"
              /\ UNCHANGED redis
         ELSE /\ redis' = RedisDelete(ReaperKey(n))
              /\ wpc' = IF n < Len(KeySteps) THEN KeySteps[n + 1] ELSE "db_delete"
    /\ UNCHANGED <<now, durable, creators, sessions, wlocal, metrics, api,
                 hist, content>>

\* db.delete(inbox): the object is deleted in the session (the row goes at
\* the commit); an exception is caught by the per-inbox handler
ReaperDeleteInbox ==
    /\ wpc = "db_delete"
    /\ \E raised \in BOOLEAN :
         IF raised
         THEN /\ \E aborted \in BOOLEAN :
                   ReaperContinue([wlocal EXCEPT !.aborted = @ \/ aborted])
              /\ hist' = Faulted(wlocal.inbox)
         ELSE /\ ReaperContinue([wlocal EXCEPT !.deleted = @ \cup {wlocal.inbox}])
              /\ UNCHANGED hist
    /\ UNCHANGED <<now, stores, creators, sessions, metrics, api, content>>

\* the history when a cycle has completed, having purged the rows P
CycleCompleted(P) ==
    hist' = [hist EXCEPT
               !.purged = @ \cup P,
               !.reaped = @ \cup {[id |-> r.id, address |-> r.address,
                                   idle |-> {d \in DOMAIN pc : pc[d] = "idle"}]
                                  : r \in P},
               !.gone1 = @ \cup hist.absent,
               !.gone2 = @ \cup (hist.absent \cap hist.gone1)]

\* db.commit(): all deletions of the cycle in one transaction.  It may
\* raise (nothing is deleted, the cycle fails); the COMMIT of an aborted
\* transaction is a rollback (nothing is deleted, the cycle completes).
ReaperCommit ==
    /\ wpc = "commit"
    /\ \E raised \in BOOLEAN :
         IF raised
         THEN CycleFailed /\ UNCHANGED durable
         ELSE /\ wpc' = "sleep"
              /\ IF wlocal.aborted
                 THEN CycleCompleted({}) /\ UNCHANGED durable
                 ELSE /\ inboxes' = InboxesWithout(wlocal.deleted)
                      /\ messages' = MessagesWithout(wlocal.deleted)
                      /\ attachments' = AttachmentsWithout(wlocal.deleted)
                      /\ CycleCompleted(PurgedRows(wlocal.deleted))
    /\ UNCHANGED <<now, redis, creators, sessions, wlocal, metrics, api,
                 content>>

\* asyncio.sleep(self.interval) returns
WorkerSleep ==
    /\ wpc = "sleep"
    /\ wpc' = "loop"
    /\ UNCHANGED <<now, stores, creators, sessions, wlocal, metrics, api,
                 hist, content>>

\* a worker that gives up after a failed cycle
WorkerHandleError_Exit ==
    /\ wpc = "cycle_failed"
    /\ metrics' = [metrics EXCEPT !.worker_errors_total = Inc(@)]
    /\ wpc' = "exited"
    /\ UNCHANGED <<now, stores, creators, sessions, wlocal, api, hist, content>>

\* except Exception: worker_errors_total.inc()
WorkerHandleError ==
    /\ wpc = "cycle_failed"
    /\ metrics' = [metrics EXCEPT !.worker_errors_total = Inc(@)]
    /\ wpc' = "backoff"
    /\ UNCHANGED <<now, stores, creators, sessions, wlocal, api, hist, content>>

\* asyncio.sleep(60) returns: back to the loop test
WorkerBackoff ==
    /\ wpc = "backoff"
    /\ wpc' = "loop"
    /\ UNCHANGED <<now, stores, creators, sessions, wlocal, metrics, api,
                 hist, content>>

\* the task is cancelled at an await: inside the try of start() the
\* CancelledError breaks the loop (the session rolls back), inside the
\* exception handler it leaves start()
WorkerCancel ==
    /\ wpc \in InCycle \cup {"sleep", "backoff"}
    /\ wpc' = "cancelled"
    /\ UNCHANGED <<now, stores, creators, sessions, wlocal, metrics, api,
                 hist, content>>

\* stop(): self.running = False
WorkerStop ==
    /\ wpc \notin WorkerEnded \cup {"init"}
    /\ wlocal.running
    /\ wlocal' = [wlocal EXCEPT !.running = FALSE]
    /\ UNCHANGED <<now, stores, creators, sessions, wpc, metrics, api, hist,
                 content>>

\* ------------------------------------------------- the deleting API calls
\* the ids a caller may name
KnownIds == InboxIds \cup ExpiringIds
\* the call returns or raises: its locals are dropped, the next call may begin
ApiReturn(c) ==
    /\ apc' = [apc EXCEPT ![c] = "idle"]
    /\ alocal' = [alocal EXCEPT ![c] = NoApiLocal]
\* the history when a call has deleted the rows P
Purge(P) == hist' = [hist EXCEPT !.purged = @ \cup P]

\* delete_inbox: inbox = get_inbox(inbox_id); absent or expired ->
\* InboxNotFoundException
DeleteInbox ==
    /\ apc["delete_inbox"] = "idle"
    /\ \E id \in KnownIds, raised \in BOOLEAN :
         IF raised \/ GetInboxIsNone(id)
         THEN UNCHANGED api
         ELSE /\ apc' = [apc EXCEPT !["delete_inbox"] = "delete_addr_key"]
              /\ alocal' = [alocal EXCEPT !["delete_inbox"] =
                              [NoApiLocal EXCEPT !.inbox_id = id,
                                                 !.address = GetInbox(id).address]]
    /\ UNCHANGED <<now, stores, creators, sessions, worker, hist, content>>

\* a delete_inbox whose three deletes all name the address key
DeleteInboxKeyOf_AddressOnly(n) == AddrKey(alocal["delete_inbox"].address)

\* the key the n-th redis.delete of delete_inbox removes
DeleteInboxKeyOf(n) ==
    CASE n = 1 -> AddrKey(alocal["delete_inbox"].address)
      [] n = 2 -> IdKey(alocal["delete_inbox"].inbox_id)
      [] n = 3 -> CountKey(alocal["delete_inbox"].address)

\* redis.delete(key): not guarded here, an exception ends the call
DeleteInboxKey(n) ==
    /\ apc["delete_inbox"] = KeySteps[n]
    /\ \E raised \in BOOLEAN :
         IF raised
         THEN ApiReturn("delete_inbox") /\ UNCHANGED redis
         ELSE /\ redis' = RedisDelete(DeleteInboxKeyOf(n))
              /\ apc' = [apc EXCEPT !["delete_inbox"] =
                           IF n < Len(KeySteps) THEN KeySteps[n + 1] ELSE "db_delete"]
              /\ UNCHANGED alocal
    /\ UNCHANGED <<now, durable, creators, sessions, worker, hist, content>>

\* db.delete(inbox): the session loads inbox.messages and marks the objects
DeleteInboxDb ==
    /\ apc["delete_inbox"] = "db_delete"
    /\ \E raised \in BOOLEAN :
         IF raised
         THEN ApiReturn("delete_inbox")
         ELSE /\ apc' = [apc EXCEPT !["delete_inbox"] = "commit"]
              /\ UNCHANGED alocal
    /\ UNCHANGED <<now, stores, creators, sessions, worker, hist, content>>

\* db.commit(): DELETE of the row, its messages and attachments with it
DeleteInboxCommit ==
    /\ apc["delete_inbox"] = "commit"
    /\ \E raised \in BOOLEAN :
         IF raised
         THEN UNCHANGED <<durable, hist>>
         ELSE LET D == {alocal["delete_inbox"].inbox_id}
              IN /\ inboxes' = InboxesWithout(D)
                 /\ messages' = MessagesWithout(D)
                 /\ attachments' = AttachmentsWithout(D)
                 /\ Purge(PurgedRows(D))
    /\ ApiReturn("delete_inbox")
    /\ UNCHANGED <<now, redis, creators, sessions, worker, content>>

\* trigger_cleanup: select(Inbox).where(Inbox.expires_at < utcnow()), no
\* limit
TriggerCleanup ==
    /\ apc["trigger_cleanup"] = "idle"
    /\ \E raised \in BOOLEAN :
         IF raised
         THEN UNCHANGED api
         ELSE /\ apc' = [apc EXCEPT !["trigger_cleanup"] =
                           IF Expired(now) = {} THEN "commit" ELSE "db_delete"]
              /\ alocal' = [alocal EXCEPT !["trigger_cleanup"] =
                              [NoApiLocal EXCEPT !.expired = Expired(now),
                                                 !.todo = Expired(now)]]
    /\ UNCHANGED <<now, stores, creators, sessions, worker, hist, content>>

\* for inbox in expired_inboxes: db.delete(inbox); no Fast Index key is
\* touched
TriggerCleanupDelete ==
    /\ apc["trigger_cleanup"] = "db_delete"
    /\ \E raised \in BOOLEAN :
         IF raised
         THEN ApiReturn("trigger_cleanup")
         ELSE LET rest == alocal["trigger_cleanup"].todo
                            \ {First(alocal["trigger_cleanup"].todo)}
              IN /\ alocal' = [alocal EXCEPT !["trigger_cleanup"].todo = rest]
                 /\ apc' = [apc EXCEPT !["trigger_cleanup"] =
                              IF rest = {} THEN "commit" ELSE "db_delete"]
    /\ UNCHANGED <<now, stores, creators, sessions, worker, hist, content>>

\* db.commit(): all the expired rows that were selected, in one transaction
TriggerCleanupCommit ==
    /\ apc["trigger_cleanup"] = "commit"
    /\ \E raised \in BOOLEAN :
         IF raised
         THEN UNCHANGED <<durable, hist>>
         ELSE LET D == alocal["trigger_cleanup"].expired
              IN /\ inboxes' = InboxesWithout(D)
                 /\ messages' = MessagesWithout(D)
                 /\ attachments' = AttachmentsWithout(D)
                 /\ Purge(PurgedRows(D))
    /\ ApiReturn("trigger_cleanup")
    /\ UNCHANGED <<now, redis, creators, sessions, worker, content>>

\* DELETE of Message rows: ON DELETE CASCADE removes their Attachment rows
MessagesWithoutIds(M) == {m \in messages : m.id \notin M}
AttachmentsWithoutMessages(M) == {t \in attachments : t.message_id \notin M}

\* delete_message: select(Message).where(Message.id == message_id); no row
\* -> MessageNotFoundException
DeleteMessage ==
    /\ apc["delete_message"] = "idle"
    /\ \E id \in Deliveries, raised \in BOOLEAN :
         IF raised \/ ~\E m \in messages : m.id = id
         THEN UNCHANGED api
         ELSE /\ apc' = [apc EXCEPT !["delete_message"] = "db_delete"]
              /\ alocal' = [alocal EXCEPT !["delete_message"] =
                              [NoApiLocal EXCEPT !.message_id = id]]
    /\ UNCHANGED <<now, stores, creators, sessions, worker, hist, content>>

\* db.delete(message): the session loads message.attachments and marks them
DeleteMessageDb ==
    /\ apc["delete_message"] = "db_delete"
    /\ \E raised \in BOOLEAN :
         IF raised
         THEN ApiReturn("delete_message")
         ELSE /\ apc' = [apc EXCEPT !["delete_message"] = "commit"]
              /\ UNCHANGED alocal
    /\ UNCHANGED <<now, stores, creators, sessions, worker, hist, content>>

\* db.commit(): the Message row goes, message_count and the Fast Index
\* counter are left as they are
DeleteMessageCommit ==
    /\ apc["delete_message"] = "commit"
    /\ \E raised \in BOOLEAN :
         IF raised
         THEN UNCHANGED <<messages, attachments>>
         ELSE LET M == {alocal["delete_message"].message_id}
              IN /\ messages' = MessagesWithoutIds(M)
                 /\ attachments' = AttachmentsWithoutMessages(M)
    /\ ApiReturn("delete_message")
    /\ UNCHANGED <<now, inboxes, redis, creators, sessions, worker, hist,
                 content>>

\* the steps of the three deleting API calls
ApiStep ==
    \/ DeleteInbox
    \/ \E n \in 1..Len(KeySteps) : DeleteInboxKey(n)
    \/ DeleteInboxDb
    \/ DeleteInboxCommit
    \/ TriggerCleanup
    \/ TriggerCleanupDelete
    \/ TriggerCleanupCommit
    \/ DeleteMessage
    \/ DeleteMessageDb
    \/ DeleteMessageCommit

\* ------------------------------------------------------------ SpecReaper
\* The cleanup worker alone, over a Durable Store of NExpiring inboxes
\* created two hours or one hour before the clock ends, started in the
\* last hour but one with a batch size of 1 or of CLEANUP_BATCH_SIZE; the
\* first inbox has received one message with one attachment from session 1.
AddressOf(i) == "a" \o SubSeq(i, 2, Len(i))
\* the session of a delivery that was answered 250
AcceptedTrace == <<"no_recipients", "unknown_recipient", "quota", "oversize",
                   "parse", "processing", "store_message", "message_count",
                   "redis_incr">>

InitReaper ==
    /\ now = MaxTime - 1
    /\ \E created \in [ExpiringIds -> {MaxTime - 2, MaxTime - 1}] :
         /\ created[ProvisionedId] = MaxTime - 2
         /\ inboxes = [i \in ExpiringIds |->
                         [address |-> AddressOf(i), created_at |-> created[i],
                          expires_at |-> created[i] + DEFAULT_TTL_HOURS,
                          is_active |-> TRUE,
                          message_count |-> IF i = ProvisionedId THEN 1 ELSE 0]]
         /\ redis = [k \in {AddrKey(AddressOf(i)) : i \in ExpiringIds}
                           \cup {IdKey(i) : i \in ExpiringIds}
                           \cup {CountKey(ProvisionedAddress)} |->
                       IF k = CountKey(ProvisionedAddress)
                       THEN [v |-> 1, exp |-> NoTTL]
                       ELSE LET i == CHOOSE j \in ExpiringIds :
                                       k \in {AddrKey(AddressOf(j)), IdKey(j)}
                            IN [v |-> IF k = IdKey(i) THEN AddressOf(i) ELSE i,
                                exp |-> created[i] + DEFAULT_TTL_HOURS]]
    /\ messages = {[id |-> 1, inbox_id |-> ProvisionedId, to_address |-> "",
                    size_bytes |-> max_email_size_bytes,
                    has_attachments |-> TRUE, is_read |-> FALSE]}
    /\ attachments = {[id |-> <<1, 1>>, message_id |-> 1]}
    /\ cpc = [i \in ExpiringIds |-> "done"]
    /\ clocal = [i \in ExpiringIds |->
                   [address |-> AddressOf(i), ttl |-> DEFAULT_TTL_HOURS,
                    retries |-> 0]]
    /\ pc = [d \in Deliveries |-> IF d = 1 THEN "done" ELSE "idle"]
    /\ envelope = [d \in Deliveries |->
                     IF d = 1
                     THEN [rcpt_tos |-> <<ProvisionedAddress>>,
                           size |-> max_email_size_bytes]
                     ELSE [rcpt_tos |-> <<>>, size |-> 0]]
    /\ local = [d \in Deliveries |-> NoLocal]
    /\ response = [d \in Deliveries |-> IF d = 1 THEN R250 ELSE None]
    /\ trace = [d \in Deliveries |-> IF d = 1 THEN AcceptedTrace ELSE <<>>]
    /\ wpc = "init"
    /\ \E n \in {1, CLEANUP_BATCH_SIZE} : wlocal = [NoWorker EXCEPT !.batch_size = n]
    /\ metrics = NoMetrics
    /\ apc = [c \in ApiCalls |-> "idle"]
    /\ alocal = [c \in ApiCalls |-> NoApiLocal]
    /\ hist = NoHist
    /\ mime = NoMime
    /\ vault = NoVault
    /\ reader = NoReader
    /\ limiter = NoLimiter
    /\ smtp = NoSmtp

NextReaper ==
    \/ Tick
    \/ WorkerStart
    \/ WorkerLoop
    \/ ReaperSelect
    \/ ReaperCountMessages
    \/ \E n \in 1..Len(KeySteps) : ReaperDeleteKey(n)
    \/ ReaperDeleteInbox
    \/ ReaperCommit
    \/ WorkerSleep
    \/ WorkerHandleError
    \/ WorkerBackoff
    \/ WorkerCancel
    \/ WorkerStop

SpecReaper == InitReaper /\ [][NextReaper]_vars

\* the steps of the worker task itself: each await it waits at returns
WorkerProgress ==
    \/ WorkerLoop
    \/ ReaperSelect
    \/ ReaperCountMessages
    \/ \E n \in 1..Len(KeySteps) : ReaperDeleteKey(n)
    \/ ReaperDeleteInbox
    \/ ReaperCommit
    \/ WorkerSleep
    \/ WorkerHandleError
    \/ WorkerBackoff

\* ------------------------------------------------------- FairSpecWorker
\* The cleanup worker over the one provisioned inbox of InitIntake; the
\* event loop keeps running the worker task until it ends.
FairSpecWorker == InitIntake /\ [][NextReaper]_vars /\ WF_vars(WorkerProgress)

\* ------------------------------------------------------- FairSpecBadRow
\* The cleanup worker, never stopped or cancelled, over a database whose
\* only fault is one bad row: a statement raises only while that inbox is
\* processed (or in a transaction that such a failure has aborted).
BadRow == ProvisionedId

BadRowProgress ==
    \/ WorkerStart /\ wpc' = "loop"
    \/ WorkerLoop
    \/ ReaperSelect /\ wpc' # "cycle_failed"
    \/ ReaperCountMessages
         /\ ((wlocal.inbox # BadRow /\ ~wlocal.aborted) => wpc' = "delete_addr_key")
    \/ \E n \in 1..Len(KeySteps) : ReaperDeleteKey(n)
    \/ ReaperDeleteInbox
         /\ (wlocal.inbox # BadRow => wlocal.inbox \in wlocal'.deleted)
    \/ ReaperCommit /\ wpc' # "cycle_failed"
    \/ WorkerSleep

NextBadRow == Tick \/ BadRowProgress

FairSpecBadRow == InitReaper /\ [][NextBadRow]_vars /\ WF_vars(BadRowProgress)

\* ------------------------------------------------------------- SpecPurge
\* One SMTP session delivering to the one provisioned inbox while the clock
\* runs past its expiry and rows are deleted by one cycle of the cleanup
\* worker (begun at any time) and by any number of delete_inbox,
\* trigger_cleanup and delete_message calls.
DeliveryStep(d) ==
    \/ HandleDATA(d)
    \/ ValidateRecipient(d)
    \/ CheckInboxQuota(d)
    \/ ValidateMessageSize(d)
    \/ ParseMessage(d)
    \/ ProcessMessage(d)
    \/ StoreMessage(d)
    \/ RefreshMessage(d)
    \/ IncrementGetInbox(d)
    \/ IncrementCommit(d)
    \/ IncrementRedis(d)

\* start() up to the db.commit() of the first _run_cleanup
ReaperCycle ==
    \/ WorkerStart
    \/ WorkerLoop
    \/ ReaperSelect
    \/ ReaperCountMessages
    \/ \E n \in 1..Len(KeySteps) : ReaperDeleteKey(n)
    \/ ReaperDeleteInbox
    \/ ReaperCommit

NextPurge ==
    \/ Tick
    \/ DeliveryStep(1)
    \/ ApiStep
    \/ ReaperCycle

SpecPurge == InitIntake /\ [][NextPurge]_vars

\* --------------------------------------------------------- SpecProvision
\* Concurrent create_inbox calls, one more than the inboxes of Spec, on an
\* empty Durable Store while the clock runs; every call draws its addresses
\* from the same small set, so collisions and exhausted retries happen.
ProvisionIds == {"i" \o ToString(n) : n \in 1..(MaxInboxes + 1)}

InitProvision ==
    /\ now = 0
    /\ inboxes = <<>>
    /\ messages = {}
    /\ attachments = {}
    /\ redis = <<>>
    /\ cpc = [i \in ProvisionIds |-> "idle"]
    /\ clocal = [i \in ProvisionIds |-> NoCreateLocal]
    /\ pc = [d \in Deliveries |-> "idle"]
    /\ envelope = [d \in Deliveries |-> [rcpt_tos |-> <<>>, size |-> 0]]
    /\ local = [d \in Deliveries |-> NoLocal]
    /\ response = [d \in Deliveries |-> None]
    /\ trace = [d \in Deliveries |-> <<>>]
    /\ JanitorsInit

NextProvision ==
    \/ Tick
    \/ \E i \in ProvisionIds : CreateInbox(i)
    \/ \E i \in ProvisionIds : CreateInboxAddressExists(i)
    \/ \E i \in ProvisionIds : CreateInboxCommit(i)
    \/ \E i \in ProvisionIds : CreateInboxSetexAddr(i)
    \/ \E i \in ProvisionIds : CreateInboxSetexId(i)

SpecProvision == InitProvision /\ [][NextProvision]_vars

\* ------------------------------------------------------------- SpecBurst
\* A burst of concurrent SMTP sessions, one more than in Spec, delivering
\* to the one provisioned inbox, and delete_message calls.
BurstSessions == 1..(NDeliveries + 1)

InitBurst ==
    /\ now = 0
    /\ inboxes = (ProvisionedId :>
                    [address |-> ProvisionedAddress, created_at |-> 0,
                     expires_at |-> DEFAULT_TTL_HOURS, is_active |-> TRUE,
                     message_count |-> 0])
    /\ messages = {}
    /\ attachments = {}
    /\ redis = (AddrKey(ProvisionedAddress) :>
                    [v |-> ProvisionedId, exp |-> DEFAULT_TTL_HOURS])
               @@ (IdKey(ProvisionedId) :>
                    [v |-> ProvisionedAddress, exp |-> DEFAULT_TTL_HOURS])
    /\ cpc = [i \in InboxIds |-> IF i = ProvisionedId THEN "done" ELSE "idle"]
    /\ clocal = [i \in InboxIds |->
                   IF i = ProvisionedId
                   THEN [address |-> ProvisionedAddress,
                         ttl |-> DEFAULT_TTL_HOURS, retries |-> 0]
                   ELSE NoCreateLocal]
    /\ pc = [d \in BurstSessions |-> "idle"]
    /\ envelope = [d \in BurstSessions |-> [rcpt_tos |-> <<>>, size |-> 0]]
    /\ local = [d \in BurstSessions |-> NoLocal]
    /\ response = [d \in BurstSessions |-> None]
    /\ trace = [d \in BurstSessions |-> <<>>]
    /\ JanitorsInit

NextBurst ==
    \/ \E d \in BurstSessions : DeliveryStep(d)
    \/ DeleteMessage
    \/ DeleteMessageDb
    \/ DeleteMessageCommit

SpecBurst == InitBurst /\ [][NextBurst]_vars

\* ------------------------------------------------------- EmailProcessor
\* Text is a sequence of tokens, the empty string the empty sequence; an
\* Optional[str] is a set: {} is None, {t} the string t.
Some(t) == {t}
Nothing == {}
\* the one element of an Optional that is not None
The(o) == CHOOSE x \in o : TRUE
\* Python truth of an Optional[str]: None and "" are false
Truthy(o) == o # Nothing /\ o # Some(<<>>)

\* A part as message.walk() yields it: its content type, its decoded body,
\* whether part.get_content() raises on it (unknown charset), whether it
\* has a Content-Disposition header, part.get_filename() ("" when there is
\* none) and whether part.get_payload(decode=True) raises on it.
Part(ctype, body, undecodable, disposition, filename, broken) ==
    [ctype |-> ctype, body |-> body, undecodable |-> undecodable,
     disposition |-> disposition, filename |-> filename, broken |-> broken]

TextPart(body, undecodable) ==
    Part("text/plain", body, undecodable, FALSE, "", FALSE)
HtmlPart(body) == Part("text/html", body, FALSE, FALSE, "", FALSE)
FilePart(body, filename, broken) ==
    Part("application/pdf", body, FALSE, TRUE, filename, broken)
Container == Part("multipart/alternative", <<>>, FALSE, FALSE, "", FALSE)

\* the parts messages are made of here
PartKinds ==
    {TextPart(<<>>, FALSE), TextPart(<<"T1">>, FALSE),
     TextPart(<<"T2", "xff">>, TRUE),
     HtmlPart(<<"p", "script">>), HtmlPart(<<"comment">>),
     FilePart(<<"P">>, "invoice.pdf", FALSE),
     FilePart(<<>>, "invoice.pdf", FALSE),
     FilePart(<<"P">>, "invoice.pdf", TRUE),
     FilePart(<<"P">>, "", FALSE),
     Container}

\* sequences of at most n elements of S
SeqUpTo(S, n) == UNION {[1..k -> S] : k \in 0..n}

\* the header fields of a message: name -> value, absent names left out
HeaderSets ==
    {h \in [{"Subject", "Bcc", "X-Mailer"} -> {"absent", "", "v"}] :
       h["Bcc"] # "" /\ h["X-Mailer"] # ""}
HeadersOf(h) == [n \in {m \in DOMAIN h : h[m] # "absent"} |-> h[n]]

\* the messages BytesParser(policy=policy.default) hands to the processor:
\* a multipart message with its parts in document order, or a single part
ParsedMessages ==
    {[is_multipart |-> TRUE, parts |-> ps, headers |-> HeadersOf(h)] :
       ps \in SeqUpTo(PartKinds, MaxParts), h \in HeaderSets}
    \cup {[is_multipart |-> FALSE, parts |-> <<pt>>, headers |-> HeadersOf(h)] :
            pt \in PartKinds \ {Container}, h \in HeaderSets}

\* bytes.decode('utf-8', errors='replace')
DecodeReplace(b) == [k \in DOMAIN b |-> IF b[k] = "xff" THEN "?" ELSE b[k]]

\* a text part read without the fallback: get_content() raises on a part
\* of unknown charset
TextOf_NoFallback(part) ==
    IF part.undecodable THEN [raised |-> TRUE, text |-> <<>>]
    ELSE [raised |-> FALSE, text |-> part.body]

\* try: part.get_content()
\* except: part.get_payload(decode=True).decode('utf-8', errors='replace')
TextOf(part) ==
    IF part.undecodable THEN [raised |-> FALSE, text |-> DecodeReplace(part.body)]
    ELSE [raised |-> FALSE, text |-> part.body]

\* the loop of _extract_bodies over the parts from the k-th on, with the
\* bodies found so far
RECURSIVE WalkBodies(_, _, _)
WalkBodies(parts, k, acc) ==
    IF k > Len(parts) \/ acc.raised THEN acc
    ELSE LET part == parts[k] IN
         IF part.ctype = "text/plain" /\ ~Truthy(acc.text)
         THEN WalkBodies(parts, k + 1,
                         [acc EXCEPT !.text = Some(TextOf(part).text),
                                     !.raised = TextOf(part).raised])
         ELSE IF part.ctype = "text/html" /\ ~Truthy(acc.html)
         THEN WalkBodies(parts, k + 1,
                         [acc EXCEPT !.html = Some(TextOf(part).text),
                                     !.raised = TextOf(part).raised])
         ELSE WalkBodies(parts, k + 1, acc)

\* _extract_bodies(message): (html_body, text_body)
ExtractBodiesOf(m) ==
    LET none == [html |-> Nothing, text |-> Nothing, raised |-> FALSE] IN
    IF m.is_multipart THEN WalkBodies(m.parts, 1, none)
    ELSE LET part == m.parts[1] IN
         IF part.ctype = "text/plain"
         THEN [none EXCEPT !.text = Some(TextOf(part).text),
                           !.raised = TextOf(part).raised]
         ELSE IF part.ctype = "text/html"
         THEN [none EXCEPT !.html = Some(TextOf(part).text),
                           !.raised = TextOf(part).raised]
         ELSE none

\* common_headers of _extract_headers
CommonHeaders ==
    {"From", "To", "Cc", "Bcc", "Subject", "Date", "Message-ID",
     "In-Reply-To", "References", "Return-Path", "Reply-To"}

\* an extraction that keeps the common headers whose value is empty
ExtractHeadersOf_KeepEmpty(m) ==
    [n \in {c \in CommonHeaders : c \in DOMAIN m.headers} |-> m.headers[n]]

\* _extract_headers(message): for each common header, message.get(name),
\* kept if it is not empty
ExtractHeadersOf(m) ==
    [n \in {c \in CommonHeaders : c \in DOMAIN m.headers /\ m.headers[c] # ""}
       |-> m.headers[n]]

\* _extract_subject(message): message.get("Subject", "")
ExtractSubjectOf(m) ==
    IF "Subject" \in DOMAIN m.headers THEN m.headers["Subject"] ELSE ""

\* base64.b64encode(content).decode('utf-8')
B64Encode(data) == [k \in DOMAIN data |-> "b64:" \o data[k]]

\* a loop that appends an attachment for an empty payload as well
IsAttachment_KeepEmpty(part) ==
    /\ part.ctype # "multipart/alternative"
    /\ part.disposition
    /\ part.filename # ""
    /\ ~part.broken

\* whether the loop of _extract_attachments appends an attachment for the
\* part: a non-multipart part with a Content-Disposition and a filename
\* whose payload is decoded without an exception and is not empty
IsAttachment(part) ==
    /\ part.ctype # "multipart/alternative"
    /\ part.disposition
    /\ part.filename # ""
    /\ ~part.broken
    /\ part.body # <<>>

\* the dict _extract_attachments appends
AttachmentOf(part) ==
    [filename |-> part.filename, content_type |-> part.ctype,
     size |-> Len(part.body), content |-> B64Encode(part.body)]

\* _extract_attachments(message): nothing for a message that is not
\* multipart, else the attachments of the parts in document order
RECURSIVE WalkAttachments(_, _)
WalkAttachments(parts, k) ==
    IF k > Len(parts) THEN <<>>
    ELSE IF IsAttachment(parts[k])
         THEN <<AttachmentOf(parts[k])>> \o WalkAttachments(parts, k + 1)
         ELSE WalkAttachments(parts, k + 1)

ExtractAttachmentsOf(m) ==
    IF ~m.is_multipart THEN <<>> ELSE WalkAttachments(m.parts, 1)

\* process_message between redis.get and store_message: the four
\* extractions, in the order of the code; an exception of one of them
\* leaves process_message (handle_DATA answers 451)
ProcessorStart(m) ==
    [message |-> m, step |-> "parsed", subject |-> "", body_html |-> Nothing,
     body_text |-> Nothing, headers |-> <<>>, attachments |-> <<>>]

ExtractSubject ==
    /\ mime.step = "parsed"
    /\ mime' = [mime EXCEPT !.step = "subject",
                            !.subject = ExtractSubjectOf(mime.message)]
    /\ UNCHANGED <<now, stores, creators, sessions, janitors, vault,
                 clients>>

ExtractBodies ==
    /\ mime.step = "subject"
    /\ LET r == ExtractBodiesOf(mime.message) IN
       mime' = IF r.raised THEN [mime EXCEPT !.step = "raised"]
               ELSE [mime EXCEPT !.step = "bodies", !.body_html = r.html,
                                 !.body_text = r.text]
    /\ UNCHANGED <<now, stores, creators, sessions, janitors, vault,
                 clients>>

ExtractHeaders ==
    /\ mime.step = "bodies"
    /\ mime' = [mime EXCEPT !.step = "headers",
                            !.headers = ExtractHeadersOf(mime.message)]
    /\ UNCHANGED <<now, stores, creators, sessions, janitors, vault,
                 clients>>

ExtractAttachments ==
    /\ mime.step = "headers"
    /\ mime' = [mime EXCEPT !.step = "attachments",
                            !.attachments = ExtractAttachmentsOf(mime.message)]
    /\ UNCHANGED <<now, stores, creators, sessions, janitors, vault,
                 clients>>

\* ---------------------------------------------------- EncryptionService
\* What encrypt returns is the urlsafe base64 text of a Fernet token.  The
\* token: the key it was made under, the IV drawn for it (the n-th value
\* of os.urandom is written n), the plaintext under AES and whether its
\* HMAC is the one of these fields.  The text around it: whether its
\* padding is well formed, the unused bits of its last character (0 as
\* b64encode writes them) and the characters outside the alphabet in it.
SETTINGS_KEY == "ENCRYPTION_KEY"

\* encrypt(data) at the n-th call of the process
Encrypt(data, n) ==
    [key |-> SETTINGS_KEY, iv |-> n, pt |-> data, hmac_ok |-> TRUE,
     padding_ok |-> TRUE, slack |-> 0, junk |-> 0]

\* decrypt(encrypted_data): base64.urlsafe_b64decode drops characters
\* outside the alphabet and the unused bits and raises on bad padding;
\* Fernet.decrypt raises unless the HMAC verifies under the key; every
\* exception becomes EncryptionException
Decrypt(value) ==
    IF ~value.padding_ok \/ value.key # SETTINGS_KEY \/ ~value.hmac_ok
    THEN [raised |-> TRUE, text |-> <<>>]
    ELSE [raised |-> FALSE, text |-> value.pt]

\* --------------------------------------------------- SanitizationService
\* HTML is a sequence of nodes: "p" an allowed element, "script" an
\* element that is not allowed, "comment", "url" a bare URL in the text,
\* "text" escaped text, "a" a link with rel="noopener noreferrer".
\* Cleaner(strip=True, strip_comments=True).clean: a disallowed element
\* leaves its text, a comment nothing
RECURSIVE Clean(_)
Clean(h) ==
    IF h = <<>> THEN <<>>
    ELSE LET rest == Clean(Tail(h)) IN
         CASE Head(h) = "script" -> <<"text">> \o rest
           [] Head(h) = "comment" -> rest
           [] OTHER -> <<Head(h)>> \o rest

\* bleach.linkify with _set_link_attributes
Linkify(h) == [k \in DOMAIN h |-> IF h[k] = "url" THEN "a" ELSE h[k]]

\* sanitize_html(html)
SanitizeHtml(h) == IF h = <<>> THEN <<>> ELSE Linkify(Clean(h))

\* ------------------------------------------------- store_message, content
\* the raw bytes of the message under the processor, and
\* raw_email.decode('utf-8', errors='replace')
RawEmail == <<"raw", "xff">>

\* a store_message that encrypts the HTML body as it was parsed
HtmlToEncrypt_Unsanitized(h) == h

\* what store_message encrypts for the HTML body
HtmlToEncrypt(h) == SanitizeHtml(h)

\* the number of encrypt calls store_message makes before the raw message
CallsBeforeRaw(m) ==
    (IF Truthy(m.body_html) THEN 1 ELSE 0) + (IF Truthy(m.body_text) THEN 1 ELSE 0)

\* the Message row store_message builds from the processor's output
ContentRow(m, id, inbox_id) ==
    [id |-> id, inbox_id |-> inbox_id, to_address |-> "",
     subject |-> m.subject,
     body_html_encrypted |->
        IF Truthy(m.body_html)
        THEN Some(Encrypt(HtmlToEncrypt(CHOOSE h \in m.body_html : TRUE), 1))
        ELSE Nothing,
     body_text_encrypted |->
        IF Truthy(m.body_text)
        THEN Some(Encrypt(CHOOSE t \in m.body_text : TRUE, CallsBeforeRaw(m)))
        ELSE Nothing,
     raw_email_encrypted |->
        Some(Encrypt(DecodeReplace(RawEmail), CallsBeforeRaw(m) + 1)),
     size_bytes |-> Len(RawEmail),
     has_attachments |-> m.attachments # <<>>,
     is_read |-> FALSE,
     headers |-> m.headers]

\* Attachment rows whose content is encrypted under the IV of the raw
\* message
ContentAttachments_SharedIV(m, id) ==
    {[id |-> <<id, k>>, message_id |-> id,
      filename |-> m.attachments[k].filename,
      content_type |-> m.attachments[k].content_type,
      size_bytes |-> m.attachments[k].size,
      content_encrypted |->
         Encrypt(m.attachments[k].content, CallsBeforeRaw(m) + 1)]
       : k \in DOMAIN m.attachments}

\* the Attachment rows store_message builds
ContentAttachments(m, id) ==
    {[id |-> <<id, k>>, message_id |-> id,
      filename |-> m.attachments[k].filename,
      content_type |-> m.attachments[k].content_type,
      size_bytes |-> m.attachments[k].size,
      content_encrypted |->
         Encrypt(m.attachments[k].content, CallsBeforeRaw(m) + 1 + k)]
       : k \in DOMAIN m.attachments}

\* store_message(...): sanitize, encrypt, add the Message and Attachment
\* rows, commit; the sanitizer, the Crypto Vault or the database may raise
StoreMessageContent ==
    /\ mime.step = "attachments"
    /\ \E raised \in BOOLEAN :
         IF raised
         THEN /\ mime' = [mime EXCEPT !.step = "raised"]
              /\ UNCHANGED <<messages, attachments>>
         ELSE /\ messages' = messages \cup {ContentRow(mime, 1, ProvisionedId)}
              /\ attachments' = attachments \cup ContentAttachments(mime, 1)
              /\ mime' = [mime EXCEPT !.step = "stored"]
    /\ UNCHANGED <<now, inboxes, redis, creators, sessions, janitors, vault,
                 clients>>

\* --------------------------------------------------------- SpecProcessor
\* One parsed message, any of ParsedMessages, taken through the extraction
\* steps of process_message and store_message for the provisioned inbox.
InitProcessor ==
    /\ now = 0
    /\ inboxes = (ProvisionedId :>
                    [address |-> ProvisionedAddress, created_at |-> 0,
                     expires_at |-> DEFAULT_TTL_HOURS, is_active |-> TRUE,
                     message_count |-> 0])
    /\ messages = {}
    /\ attachments = {}
    /\ redis = (AddrKey(ProvisionedAddress) :>
                    [v |-> ProvisionedId, exp |-> DEFAULT_TTL_HOURS])
               @@ (IdKey(ProvisionedId) :>
                    [v |-> ProvisionedAddress, exp |-> DEFAULT_TTL_HOURS])
    /\ cpc = [i \in InboxIds |-> IF i = ProvisionedId THEN "done" ELSE "idle"]
    /\ clocal = [i \in InboxIds |->
                   IF i = ProvisionedId
                   THEN [address |-> ProvisionedAddress,
                         ttl |-> DEFAULT_TTL_HOURS, retries |-> 0]
                   ELSE NoCreateLocal]
    /\ pc = [d \in Deliveries |-> "idle"]
    /\ envelope = [d \in Deliveries |-> [rcpt_tos |-> <<>>, size |-> 0]]
    /\ local = [d \in Deliveries |-> NoLocal]
    /\ response = [d \in Deliveries |-> None]
    /\ trace = [d \in Deliveries |-> <<>>]
    /\ wpc = "init"
    /\ wlocal = NoWorker
    /\ metrics = NoMetrics
    /\ apc = [c \in ApiCalls |-> "idle"]
    /\ alocal = [c \in ApiCalls |-> NoApiLocal]
    /\ hist = NoHist
    /\ \E m \in ParsedMessages : mime = ProcessorStart(m)
    /\ vault = NoVault
    /\ reader = NoReader
    /\ limiter = NoLimiter
    /\ smtp = NoSmtp

NextProcessor ==
    \/ ExtractSubject
    \/ ExtractBodies
    \/ ExtractHeaders
    \/ ExtractAttachments
    \/ StoreMessageContent

SpecProcessor == InitProcessor /\ [][NextProcessor]_vars

\* ------------------------------------------------------------- SpecVault
\* One plaintext encrypted by EncryptionService.encrypt; the text that was
\* returned is then kept as it is or damaged (in storage or by whoever can
\* write to it) and handed to EncryptionService.decrypt.
Plaintexts == SeqUpTo({"a", "b"}, MaxText)

\* what a damaged text can be: made under another key; a changed byte of
\* the token (the HMAC no longer fits, AES gives anything); a lost
\* character (bad padding); other values in the unused bits of the last
\* character; a character outside the alphabet put in
DamagedFrom(value) ==
    {[value EXCEPT !.key = "OTHER_KEY"]}
    \cup {[value EXCEPT !.hmac_ok = FALSE, !.pt = t] : t \in Plaintexts}
    \cup {[value EXCEPT !.padding_ok = FALSE]}
    \cup {[value EXCEPT !.slack = n] : n \in 1..3}
    \cup {[value EXCEPT !.junk = 1]}

InitVault ==
    /\ now = 0
    /\ inboxes = <<>>
    /\ messages = {}
    /\ attachments = {}
    /\ redis = <<>>
    /\ cpc = [i \in InboxIds |-> "idle"]
    /\ clocal = [i \in InboxIds |-> NoCreateLocal]
    /\ pc = [d \in Deliveries |-> "idle"]
    /\ envelope = [d \in Deliveries |-> [rcpt_tos |-> <<>>, size |-> 0]]
    /\ local = [d \in Deliveries |-> NoLocal]
    /\ response = [d \in Deliveries |-> None]
    /\ trace = [d \in Deliveries |-> <<>>]
    /\ wpc = "init"
    /\ wlocal = NoWorker
    /\ metrics = NoMetrics
    /\ apc = [c \in ApiCalls |-> "idle"]
    /\ alocal = [c \in ApiCalls |-> NoApiLocal]
    /\ hist = NoHist
    /\ mime = NoMime
    /\ \E data \in Plaintexts : vault = [step |-> "plain", data |-> data]
    /\ reader = NoReader
    /\ limiter = NoLimiter
    /\ smtp = NoSmtp

\* value = encrypt(data)
VaultEncrypt ==
    /\ vault.step = "plain"
    /\ \E raised \in BOOLEAN :
         vault' = IF raised
                  THEN [step |-> "encrypt_failed", data |-> vault.data]
                  ELSE [step |-> "encrypted", data |-> vault.data,
                        value |-> Encrypt(vault.data, 1)]
    /\ UNCHANGED <<now, stores, creators, sessions, janitors, mime,
                 clients>>

\* the stored text is damaged
VaultDamage ==
    /\ vault.step = "encrypted"
    /\ \E v \in DamagedFrom(vault.value) :
         vault' = [vault EXCEPT !.step = "damaged", !.value = v]
    /\ UNCHANGED <<now, stores, creators, sessions, janitors, mime,
                 clients>>

\* decrypt(value)
VaultDecrypt ==
    /\ vault.step \in {"encrypted", "damaged"}
    /\ vault' = [step |-> "decrypted", data |-> vault.data,
                 value |-> vault.value, result |-> Decrypt(vault.value)]
    /\ UNCHANGED <<now, stores, creators, sessions, janitors, mime,
                 clients>>

NextVault ==
    \/ VaultEncrypt
    \/ VaultDamage
    \/ VaultDecrypt

SpecVault == InitVault /\ [][NextVault]_vars

\* ------------------------------------------------------ message endpoints
\* str(e) of what decrypt caught: binascii.Error names the fault of the
\* base64 text, cryptography's InvalidToken has no text
DecryptError(value) ==
    IF ~value.padding_ok THEN <<"Incorrect padding">> ELSE <<>>

\* tempmail_exception_handler on MessageNotFoundException
NotFoundReply ==
    [NoReply EXCEPT !.status = "404", !.error = "message_not_found"]
\* tempmail_exception_handler on the EncryptionException of decrypt:
\* "detail": {"error": str(e)}
EncryptionReply(value) ==
    [NoReply EXCEPT !.status = "500", !.error = "encryption_error",
                    !.detail = Some(DecryptError(value))]
\* get_current_inbox without a valid token: HTTPException 401
UnauthorizedReply == [NoReply EXCEPT !.status = "401", !.error = "http_error"]

\* the operations of the message endpoints
ReaderOps == {"list_messages", "get_message", "delete_message"}

\* a request arrives: get_current_inbox verifies the token and returns the
\* inbox id it names, or refuses a request without a valid token
ReaderRequest ==
    /\ reader.pc = "idle"
    /\ \E op \in ReaderOps, token \in DOMAIN inboxes \cup {None},
          id \in Deliveries :
         reader' =
           IF token = None \/ GetInboxIsNone(token)
           THEN [NoReader EXCEPT !.pc = "done", !.op = op,
                                 !.message_id = id, !.before = messages,
                                 !.reply = UnauthorizedReply]
           ELSE [NoReader EXCEPT !.pc = op, !.op = op, !.inbox_id = token,
                                 !.message_id = id, !.before = messages]
    /\ UNCHANGED <<now, stores, creators, sessions, janitors, mime, vault,
                 limiter>>

\* the preview of get_messages for one row: None without a text body, the
\* text (texts here are shorter than 150 characters) or the placeholder
PreviewOf(msg) ==
    IF msg.body_text_encrypted = Nothing
    THEN Nothing
    ELSE LET full_text == Decrypt(The(msg.body_text_encrypted))
         IN IF full_text.raised
            THEN Some(<<"[Unable to decrypt preview]">>)
            ELSE Some(full_text.text)

\* whether get_messages caught a failed decrypt for a row of the inbox
PreviewFailed(inbox_id) ==
    \E msg \in MessagesOf(inbox_id) :
       /\ msg.body_text_encrypted # Nothing
       /\ Decrypt(The(msg.body_text_encrypted)).raised

\* list_messages: get_messages(inbox_id) selects the rows of the inbox and
\* builds one MessageList entry per row
ListMessages ==
    /\ reader.pc = "list_messages"
    /\ reader' =
         [reader EXCEPT
            !.pc = "done",
            !.failed = PreviewFailed(reader.inbox_id),
            !.reply = [NoReply EXCEPT
                         !.status = "200",
                         !.previews =
                            {[id |-> msg.id, preview |-> PreviewOf(msg),
                              is_read |-> msg.is_read]
                               : msg \in MessagesOf(reader.inbox_id)}]]
    /\ UNCHANGED <<now, stores, creators, sessions, janitors, mime, vault,
                 limiter>>

\* decrypt of an Optional column: None stays None
DecryptColumn(column) ==
    IF column = Nothing
    THEN [raised |-> FALSE, text |-> Nothing, value |-> Nothing]
    ELSE LET r == Decrypt(The(column))
         IN [raised |-> r.raised, text |-> Some(r.text), value |-> column]

\* get_message endpoint: message_service.get_message(message_id) selects
\* the row by its id alone, raises MessageNotFoundException without a
\* row, and decrypts the HTML body and then the text body
GetMessage ==
    /\ reader.pc = "get_message"
    /\ LET found == {m \in messages : m.id = reader.message_id}
       IN IF found = {}
          THEN reader' = [reader EXCEPT !.pc = "done", !.reply = NotFoundReply]
          ELSE LET message == CHOOSE m \in found : TRUE
                   html == DecryptColumn(message.body_html_encrypted)
                   text == DecryptColumn(message.body_text_encrypted)
               IN reader' =
                    IF html.raised
                    THEN [reader EXCEPT
                            !.pc = "done", !.failed = TRUE,
                            !.reply = EncryptionReply(The(html.value))]
                    ELSE IF text.raised
                    THEN [reader EXCEPT
                            !.pc = "done", !.failed = TRUE,
                            !.reply = EncryptionReply(The(text.value))]
                    ELSE [reader EXCEPT
                            !.pc = "mark_read", !.body_html = html.text,
                            !.body_text = text.text]
    /\ UNCHANGED <<now, stores, creators, sessions, janitors, mime, vault,
                 limiter>>

\* get_message, "Mark as read": is_read = True and commit for an unread
\* row, then the MessageDetail is returned
GetMessageMarkRead ==
    /\ reader.pc = "mark_read"
    /\ messages' = {IF m.id = reader.message_id
                    THEN [m EXCEPT !.is_read = TRUE] ELSE m : m \in messages}
    /\ reader' = [reader EXCEPT
                    !.pc = "done",
                    !.reply = [NoReply EXCEPT
                                 !.status = "200",
                                 !.body_html = reader.body_html,
                                 !.body_text = reader.body_text]]
    /\ UNCHANGED <<now, inboxes, attachments, redis, creators, sessions,
                 janitors, mime, vault, limiter>>

\* delete_message endpoint: message_service.delete_message(message_id)
\* selects the row by its id alone, raises MessageNotFoundException
\* without a row, deletes it and commits; 204 without a body
DeleteMessageRequest ==
    /\ reader.pc = "delete_message"
    /\ IF \E m \in messages : m.id = reader.message_id
       THEN /\ messages' = MessagesWithoutIds({reader.message_id})
            /\ attachments' = AttachmentsWithoutMessages({reader.message_id})
            /\ reader' = [reader EXCEPT
                            !.pc = "done",
                            !.reply = [NoReply EXCEPT !.status = "204"]]
       ELSE /\ reader' = [reader EXCEPT !.pc = "done", !.reply = NotFoundReply]
            /\ UNCHANGED <<messages, attachments>>
    /\ UNCHANGED <<now, inboxes, redis, creators, sessions, janitors, mime,
                 vault, limiter>>

\* the reply has been sent; the next request may come
ReaderDone ==
    /\ reader.pc = "done"
    /\ reader' = NoReader
    /\ UNCHANGED <<now, stores, creators, sessions, janitors, mime, vault,
                 limiter>>

\* ------------------------------------------------------------ SpecReader
\* Two inboxes, "i1" and "i2", each holding one stored message (message 1
\* in "i1", message 2 in "i2"); the body columns of message 1 are as
\* store_message wrote them or one of them was damaged in storage.  One
\* client at a time calls the message endpoints with the token of either
\* inbox or with none.
InboxOfMessage(id) == "i" \o ToString(id)
ReaderAddress(i) == IF i = "i1" THEN "a1" ELSE "a2"

\* what the processor handed to store_message for the stored messages
StoredOutputs ==
    {[subject |-> "", body_html |-> h, body_text |-> t, headers |-> <<>>,
      attachments |-> <<>>]
       : h \in {Nothing, Some(<<"p">>)}, t \in {Nothing, Some(<<"T1">>)}}

\* the rows a stored row can have become in storage: itself, or with one
\* body column damaged
RowsInStorage(row) ==
    {row}
    \cup {[row EXCEPT !.body_html_encrypted = Some(v)]
            : v \in IF row.body_html_encrypted = Nothing THEN {}
                    ELSE DamagedFrom(The(row.body_html_encrypted))}
    \cup {[row EXCEPT !.body_text_encrypted = Some(v)]
            : v \in IF row.body_text_encrypted = Nothing THEN {}
                    ELSE DamagedFrom(The(row.body_text_encrypted))}

InitReader ==
    /\ now = 0
    /\ inboxes = [i \in {InboxOfMessage(d) : d \in Deliveries} |->
                    [address |-> ReaderAddress(i), created_at |-> 0,
                     expires_at |-> DEFAULT_TTL_HOURS, is_active |-> TRUE,
                     message_count |-> 1]]
    /\ \E out \in StoredOutputs, read \in [Deliveries -> BOOLEAN] :
         \E first \in RowsInStorage(ContentRow(out, 1, InboxOfMessage(1))) :
            messages =
              {[first EXCEPT !.is_read = read[1]]}
              \cup {[ContentRow(out, d, InboxOfMessage(d))
                       EXCEPT !.is_read = read[d]] : d \in Deliveries \ {1}}
    /\ attachments = {}
    /\ redis = <<>>
    /\ cpc = [i \in InboxIds |-> "idle"]
    /\ clocal = [i \in InboxIds |-> NoCreateLocal]
    /\ pc = [d \in Deliveries |-> "idle"]
    /\ envelope = [d \in Deliveries |-> [rcpt_tos |-> <<>>, size |-> 0]]
    /\ local = [d \in Deliveries |-> NoLocal]
    /\ response = [d \in Deliveries |-> None]
    /\ trace = [d \in Deliveries |-> <<>>]
    /\ JanitorsInit

NextReader ==
    \/ ReaderRequest
    \/ ListMessages
    \/ GetMessage
    \/ GetMessageMarkRead
    \/ DeleteMessageRequest
    \/ ReaderDone

SpecReader == InitReader /\ [][NextReader]_vars

\* ------------------------------------------------ rate-limit dependencies
\* the counter keys of the one client IP
MinuteKey == "ratelimit:minute:ip"
HourKey == "ratelimit:hour:ip"
CreationKey == "inbox_creation:hour:ip"

\* incr(k) and expire(k, ttl) on the Fast Index r.  The clock counts
\* hours and stands while the requests run, so that every TTL set here
\* ends after all of them: they share one window of each counter.
Incremented(r, k) ==
    IF k \in DOMAIN r /\ (r[k].exp = NoTTL \/ now < r[k].exp)
    THEN (k :> [v |-> r[k].v + 1, exp |-> r[k].exp]) @@ r
    ELSE (k :> [v |-> 1, exp |-> NoTTL]) @@ r
Expiring(r, k) ==
    IF k \in DOMAIN r THEN (k :> [v |-> r[k].v, exp |-> now + 1]) @@ r ELSE r

\* "count and int(count) >= limit" on count = redis.get(k)
AtLimit(k, limit) == Live(k) /\ RedisGet(k) >= limit

\* the request returns: True, or HTTPException 429
LimiterReturn(c, result) ==
    [limiter EXCEPT !.pc[c] = "idle", !.result[c] = result]

\* a request of the IP enters check_rate_limit or
\* check_inbox_creation_limit
LimiterStart(c) ==
    /\ limiter.pc[c] = "idle"
    /\ \E dep \in {"check_rate_limit", "check_inbox_creation_limit"} :
         limiter' = [limiter EXCEPT !.pc[c] = dep, !.dependency[c] = dep,
                                    !.result[c] = "none"]
    /\ UNCHANGED <<now, stores, creators, sessions, janitors, mime, vault,
                 reader>>

\* check_rate_limit: minute_count = await redis.get(minute_key) and its
\* comparison
RateLimitMinute(c) ==
    /\ limiter.pc[c] = "check_rate_limit"
    /\ limiter' = IF AtLimit(MinuteKey, RATE_LIMIT_PER_MINUTE)
                  THEN LimiterReturn(c, "429")
                  ELSE [limiter EXCEPT !.pc[c] = "hour"]
    /\ UNCHANGED <<now, stores, creators, sessions, janitors, mime, vault,
                 reader>>

\* check_rate_limit: hour_count = await redis.get(hour_key) and its
\* comparison
RateLimitHour(c) ==
    /\ limiter.pc[c] = "hour"
    /\ limiter' = IF AtLimit(HourKey, RATE_LIMIT_PER_HOUR)
                  THEN LimiterReturn(c, "429")
                  ELSE [limiter EXCEPT !.pc[c] = "pipeline"]
    /\ UNCHANGED <<now, stores, creators, sessions, janitors, mime, vault,
                 reader>>

\* check_rate_limit: await pipe.execute() of incr and expire on both
\* keys, return True
RateLimitPipeline(c) ==
    /\ limiter.pc[c] = "pipeline"
    /\ redis' = Expiring(Incremented(Expiring(Incremented(redis, MinuteKey),
                                              MinuteKey), HourKey), HourKey)
    /\ limiter' = [LimiterReturn(c, "True") EXCEPT
                     !.passed_rate = limiter.passed_rate + 1]
    /\ UNCHANGED <<now, durable, creators, sessions, janitors, mime, vault,
                 reader>>

\* check_inbox_creation_limit: count = await redis.get(key) and its
\* comparison
CreationLimitGet(c) ==
    /\ limiter.pc[c] = "check_inbox_creation_limit"
    /\ limiter' = IF AtLimit(CreationKey, INBOX_CREATION_LIMIT_PER_HOUR)
                  THEN LimiterReturn(c, "429")
                  ELSE [limiter EXCEPT !.pc[c] = "incr"]
    /\ UNCHANGED <<now, stores, creators, sessions, janitors, mime, vault,
                 reader>>

\* check_inbox_creation_limit: await redis.incr(key)
CreationLimitIncr(c) ==
    /\ limiter.pc[c] = "incr"
    /\ redis' = Incremented(redis, CreationKey)
    /\ limiter' = [limiter EXCEPT !.pc[c] = "expire"]
    /\ UNCHANGED <<now, durable, creators, sessions, janitors, mime, vault,
                 reader>>

\* check_inbox_creation_limit: await redis.expire(key, 3600), return True
CreationLimitExpire(c) ==
    /\ limiter.pc[c] = "expire"
    /\ redis' = Expiring(redis, CreationKey)
    /\ limiter' = [LimiterReturn(c, "True") EXCEPT
                     !.passed_creation = limiter.passed_creation + 1]
    /\ UNCHANGED <<now, durable, creators, sessions, janitors, mime, vault,
                 reader>>

\* ----------------------------------------------------------- SpecLimiter
\* NCallers concurrent requests of one client IP at a time, each running
\* one of the two dependencies, over a Fast Index without counter keys.
InitLimiter == Init

NextLimiter ==
    \E c \in Callers :
       \/ LimiterStart(c)
       \/ RateLimitMinute(c)
       \/ RateLimitHour(c)
       \/ RateLimitPipeline(c)
       \/ CreationLimitGet(c)
       \/ CreationLimitIncr(c)
       \/ CreationLimitExpire(c)

SpecLimiter == InitLimiter /\ [][NextLimiter]_vars

\* -------------------------------------------------------------- SpecPair
\* The mail intake over two provisioned inboxes, "a1" and "a2": each
\* address of an envelope names an inbox that exists, rows and keys in
\* place; the clock stands.
SecondId == "i" \o ToString(2)
SecondAddress == "a2"

InitPair ==
    /\ now = 0
    /\ inboxes = [i \in {ProvisionedId, SecondId} |->
                    [address |-> AddressOf(i), created_at |-> 0,
                     expires_at |-> DEFAULT_TTL_HOURS, is_active |-> TRUE,
                     message_count |-> 0]]
    /\ messages = {}
    /\ attachments = {}
    /\ redis = [k \in {AddrKey(ProvisionedAddress), AddrKey(SecondAddress),
                       IdKey(ProvisionedId), IdKey(SecondId)} |->
                  [v |-> IF k = AddrKey(ProvisionedAddress) THEN ProvisionedId
                         ELSE IF k = AddrKey(SecondAddress) THEN SecondId
                         ELSE IF k = IdKey(ProvisionedId) THEN ProvisionedAddress
                         ELSE SecondAddress,
                   exp |-> DEFAULT_TTL_HOURS]]
    /\ cpc = [i \in InboxIds |-> IF i = ProvisionedId THEN "done" ELSE "idle"]
    /\ clocal = [i \in InboxIds |->
                   IF i = ProvisionedId
                   THEN [address |-> ProvisionedAddress,
                         ttl |-> DEFAULT_TTL_HOURS, retries |-> 0]
                   ELSE NoCreateLocal]
    /\ pc = [d \in Deliveries |-> "idle"]
    /\ envelope = [d \in Deliveries |-> [rcpt_tos |-> <<>>, size |-> 0]]
    /\ local = [d \in Deliveries |-> NoLocal]
    /\ response = [d \in Deliveries |-> None]
    /\ trace = [d \in Deliveries |-> <<>>]
    /\ JanitorsInit

NextPair == \E d \in Deliveries : DeliveryStep(d)

SpecPair == InitPair /\ [][NextPair]_vars

\* ------------------------------------ handle_DATA and the metrics recorders
\* The recorders of core/metrics.py are plain prometheus calls that raise
\* what the client library raises.  Under SpecTransport response[d] is the
\* line of the return statement a call has reached and smtp[d] is what the
\* call hands to the SMTP transport once the recorder in front of that
\* return statement has run.

\* record_smtp_connection(), the first statement of the try block; an
\* exception goes to the outer except clause
RecordConnection(d) ==
    /\ pc[d] = "idle"
    /\ smtp[d].at = "entry"
    /\ \E raised \in BOOLEAN :
         smtp' = [smtp EXCEPT ![d].at = IF raised THEN "except" ELSE "body"]
    /\ UNCHANGED <<now, stores, creators, pc, envelope, local, response,
                 trace, janitors, content>>

\* the body of the try block, once the connection is recorded
HandleDATABody(d) ==
    \/ smtp[d].at = "body" /\ HandleDATA(d)
    \/ smtp[d].at = "body" /\ ValidateRecipient(d)
    \/ smtp[d].at = "body" /\ CheckInboxQuota(d)
    \/ smtp[d].at = "body" /\ ValidateMessageSize(d)
    \/ smtp[d].at = "body" /\ ParseMessage(d)
    \/ smtp[d].at = "body" /\ ProcessMessage(d)
    \/ smtp[d].at = "body" /\ StoreMessage(d)
    \/ smtp[d].at = "body" /\ RefreshMessage(d)
    \/ smtp[d].at = "body" /\ IncrementGetInbox(d)
    \/ smtp[d].at = "body" /\ IncrementCommit(d)
    \/ smtp[d].at = "body" /\ IncrementRedis(d)

\* the recorder in front of the return statement reached:
\* record_smtp_rejection(reason) or record_smtp_message(status, duration);
\* then the return, or the outer except clause when the recorder raised
RecordOutcome(d) ==
    /\ pc[d] = "done"
    /\ smtp[d].at = "body"
    /\ \E raised \in BOOLEAN :
         smtp' = [smtp EXCEPT ![d] =
                    IF raised THEN [at |-> "except", line |-> None]
                    ELSE [at |-> "returned", line |-> response[d]]]
    /\ UNCHANGED <<now, stores, creators, pc, envelope, local, response,
                 trace, janitors, content>>

\* except Exception: record_smtp_message("error", ...) and
\* return "451 Temporary server error"; an exception of this recorder
\* leaves handle_DATA
UnexpectedError(d) ==
    /\ smtp[d].at = "except"
    /\ \E raised \in BOOLEAN :
         smtp' = [smtp EXCEPT ![d] =
                    IF raised THEN [at |-> "raised", line |-> None]
                    ELSE [at |-> "returned", line |-> R451Server]]
    /\ UNCHANGED <<now, stores, creators, pc, envelope, local, response,
                 trace, janitors, content>>

NextTransport ==
    \/ \E d \in Deliveries : RecordConnection(d)
    \/ \E d \in Deliveries : HandleDATABody(d)
    \/ \E d \in Deliveries : RecordOutcome(d)
    \/ \E d \in Deliveries : UnexpectedError(d)

SpecTransport == InitIntake /\ [][NextTransport]_vars

TypeOK ==
    /\ now \in 0..MaxTime
    /\ DOMAIN inboxes \subseteq InboxIds \cup ExpiringIds
    /\ \A d \in Deliveries : response[d] # None <=> pc[d] = "done"

\* ------------------------------------------------------ shared vocabulary
InTrace(d, step) == \E n \in 1..Len(trace[d]) : trace[d][n] = step
Done(d) == pc[d] = "done"
\* the Message rows a delivery has committed
RowsOf(d) == {m \in messages : m.id = d}
\* the recipient handle_DATA uses for a delivery that has one
RecipientOf(d) == Lower(envelope[d].rcpt_tos[1])
\* an unexpired Inbox row with remaining quota owns the address, and the
\* create_inbox call that made it is over
Deliverable(a) ==
    \E i \in DOMAIN inboxes :
        /\ cpc[i] \in {"done", "failed"}
        /\ inboxes[i].address = a
        /\ ~(inboxes[i].expires_at < now)
        /\ inboxes[i].message_count < MAX_EMAILS_PER_INBOX

\* ---------------------------------------------------------------- claims
\* C1: at most MAX_EMAILS_PER_INBOX Message rows are ever committed for an
\* inbox, under every interleaving of concurrent deliveries (no action of
\* Spec deletes a Message row, so the rows present are the rows committed).
C1_QuotaNeverExceeded ==
    \A i \in InboxIds : Cardinality(MessagesOf(i)) <= MAX_EMAILS_PER_INBOX

\* C2: persisting a message is all-or-nothing: once the persist call of a
\* delivery has returned or raised, its Message row (with all its
\* Attachment rows) is present exactly if its +1 on Inbox.message_count
\* was committed.
C2_AllOrNothing ==
    \A d \in Deliveries :
        Done(d) =>
            /\ (RowsOf(d) # {}) <=> InTrace(d, "message_count")
            /\ (RowsOf(d) = {}) => AttachmentsOf(d) = {}

\* C3: when no delivery is in flight (and no Message row was deleted: Spec
\* deletes none), Inbox.message_count equals the number of Message rows of
\* the inbox.
C3_CountEqualsRows ==
    (\A d \in Deliveries : pc[d] \in {"idle", "done"}) =>
        \A i \in DOMAIN inboxes :
            inboxes[i].message_count = Cardinality(MessagesOf(i))

\* C4: handle_DATA answers 250 if and only if the delivery committed
\* exactly one Message row; a delivery answered with a failure code has
\* left no Message row.
C4_AcceptedIffOneRow ==
    \A d \in Deliveries :
        Done(d) => (response[d] = R250 <=> Cardinality(RowsOf(d)) = 1)

\* C5: a delivery whose answer was decided by an exception of the Fast
\* Index or the Durable Store is answered with a 4xx code; 5xx codes are
\* for policy rejections only.
C5_InfraErrorsTemporary ==
    \A d \in Deliveries :
        (Done(d) /\ local[d].error \in {"redis", "db"}) =>
            Code(response[d]) \in 400..499

\* C6: a delivery is never rejected as unknown recipient (550) while an
\* unexpired Inbox row with remaining quota owns the address in the
\* Durable Store: a missing or unreadable Fast Index entry falls back to
\* the Durable Store.
C6_FallbackToDurableStore ==
    [][\A d \in Deliveries :
          (pc[d] = "validate_recipient" /\ response'[d] = R550)
              => ~Deliverable(local[d].recipient)]_vars

\* C7: if the Fast Index counter increment raises after the Message row and
\* the durable count were committed, the delivery is still answered 250.
C7_IndexFailureNotFatal ==
    \A d \in Deliveries :
        (Done(d) /\ InTrace(d, "message_count") /\ local[d].error = "redis")
            => response[d] = R250

\* the order of the checks of handle_DATA
CheckOrder == <<"no_recipients", "unknown_recipient", "quota", "oversize",
                "parse", "processing">>
\* the response a failed check is answered with
Rejections(check) ==
    CASE check = "no_recipients" -> {R554}
      [] check = "unknown_recipient" -> {R550}
      [] check = "quota" -> {R552Quota}
      [] check = "oversize" -> {R552Size}
      [] check = "parse" -> {R451Parse}
      [] check = "processing" -> {R451Processing}
\* the steps of the persistence pipeline
PersistSteps == {"store_message", "message_count", "redis_incr"}
\* the checks a delivery has evaluated, in the order it evaluated them
ChecksOf(d) == SelectSeq(trace[d], LAMBDA x : x \notin PersistSteps)

\* C8: handle_DATA evaluates its checks in the order no-recipients,
\* unknown-recipient, quota, oversize, parse-failure, processing-failure:
\* the checks a delivery has evaluated are always a prefix of that order; a
\* failure response is the one of the last check evaluated, so no check
\* runs after a failed one; and nothing is persisted before all six checks
\* were reached.
C8_CheckOrder ==
    \A d \in Deliveries :
        LET n == Len(ChecksOf(d)) IN
        /\ n <= Len(CheckOrder)
        /\ ChecksOf(d) = SubSeq(CheckOrder, 1, n)
        /\ (Done(d) /\ response[d] # R250) => response[d] \in Rejections(CheckOrder[n])
        /\ (Done(d) /\ response[d] = R250) => n = Len(CheckOrder)
        /\ (RowsOf(d) # {} \/ \E x \in PersistSteps : InTrace(d, x))
              => n = Len(CheckOrder)

\* C8 witness: a message that is oversize and sent to an inbox whose counter
\* has reached the quota was rejected as quota exceeded, its size unchecked.
C8_Witness ==
    \E d \in Deliveries :
        /\ response[d] = R552Quota
        /\ TooLarge(envelope[d].size)
        /\ ~InTrace(d, "oversize")

\* C9: for a delivery that reached the size check (a known recipient with
\* remaining quota): a message of exactly max_email_size_bytes is not
\* rejected as oversize, goes on to the parser and is answered 250 unless a
\* later step raises; a message of max_email_size_bytes + 1 is answered 552
\* oversize without the parser or the persistence pipeline being invoked.
C9_SizeBoundary ==
    \A d \in Deliveries :
        InTrace(d, "oversize") =>
            /\ envelope[d].size = max_email_size_bytes =>
                  /\ response[d] # R552Size
                  /\ pc[d] = "parse" \/ InTrace(d, "parse")
                  /\ (Done(d) /\ local[d].error = None) => response[d] = R250
            /\ envelope[d].size = max_email_size_bytes + 1 =>
                  /\ response[d] = R552Size
                  /\ ~InTrace(d, "parse") /\ ~InTrace(d, "processing")
                  /\ RowsOf(d) = {}

\* C9 witness: one delivery of exactly the maximum size was accepted and
\* another of one byte more was rejected as oversize.
C9_Witness ==
    \E d1, d2 \in Deliveries :
        /\ envelope[d1].size = max_email_size_bytes
        /\ response[d1] = R250
        /\ envelope[d2].size = max_email_size_bytes + 1
        /\ response[d2] = R552Size

\* the positions of handle_DATA before the persistence step (store_message)
BeforePersist == {"idle", "validate_recipient", "check_inbox_quota",
                  "message_size", "parse", "process_message"}

\* C10: no step of a delivery before the persistence step changes a Durable
\* Store row or a Fast Index key or counter: the admission checks only
\* read, whether they reject or admit.
C10_AdmissionReadOnly ==
    [][\A d \in Deliveries :
          (pc[d] \in BeforePersist /\ pc'[d] # pc[d]) => UNCHANGED stores]_vars

\* C10 witness: a delivery was rejected at the quota check while the inbox,
\* its Message row and its Fast Index keys and counter are in place.
C10_Witness ==
    \E d \in Deliveries :
        /\ response[d] = R552Quota
        /\ messages # {}
        /\ Live(CountKey(RecipientOf(d)))

\* the three Fast Index keys of an inbox
KeysOf(id, address) == {AddrKey(address), IdKey(id), CountKey(address)}
\* an Inbox row owns the id or the address
Owned(id, address) ==
    \E i \in DOMAIN inboxes : i = id \/ inboxes[i].address = address

\* C11: for every inbox whose deletion a completed reaper cycle has
\* committed (the cycle began after its expires_at): the Inbox row, its
\* Message and Attachment rows and its three Fast Index keys are gone, and
\* every delivery to its address that began later was rejected as unknown
\* recipient (550).
C11_ReapedIsGone ==
    \A r \in hist.reaped :
        /\ r.id \notin DOMAIN inboxes
        /\ MessagesOf(r.id) = {}
        /\ \A t \in attachments : \E m \in messages : m.id = t.message_id
        /\ \A k \in KeysOf(r.id, r.address) : ~Live(k)
        /\ \A d \in r.idle :
              (Done(d) /\ envelope[d].rcpt_tos # <<>> /\ RecipientOf(d) = r.address)
                  => response[d] = R550

\* C12: a Fast Index key of an inbox that was already absent from the
\* Durable Store when two reaper cycles began, both of which have
\* completed, is gone (unless a new Inbox row has taken the id or address).
C12_NoOrphanKeys ==
    \A r \in hist.gone2 :
        ~Owned(r.id, r.address) => \A k \in KeysOf(r.id, r.address) : ~Live(k)

\* C14: when a reaper cycle has completed, every inbox of its batch in
\* whose own processing no exception arose is deleted from the Durable
\* Store: a failure on another inbox of the batch does not keep it.
C14_FailureIsolated ==
    wpc = "sleep" =>
        \A i \in DOMAIN wlocal.rows :
            i \notin hist.faulted => i \notin DOMAIN inboxes

\* C16: every Inbox row that leaves the Durable Store had expires_at before
\* the 'now' of the reaper cycle that deletes it, a cycle deletes at most
\* batch_size rows, and every Fast Index key that is deleted belongs to an
\* inbox of the batch that had expired before that 'now'.
C16_OnlyExpiredInBatch ==
    [][/\ \A i \in DOMAIN inboxes \ DOMAIN inboxes' :
              i \in DOMAIN wlocal.rows /\ inboxes[i].expires_at < wlocal.now
       /\ Cardinality(DOMAIN inboxes \ DOMAIN inboxes') <= wlocal.batch_size
       /\ \A k \in DOMAIN redis \ DOMAIN redis' :
              \E i \in DOMAIN wlocal.rows :
                  /\ wlocal.rows[i].expires_at < wlocal.now
                  /\ k \in KeysOf(i, wlocal.rows[i].address)]_vars

\* C16 witness: a cycle with batch size 1 has deleted one expired inbox
\* and its keys while a second expired inbox is still in the Durable
\* Store with its keys; or an inbox that has not expired is.
C16_Witness ==
    /\ wpc = "sleep"
    /\ wlocal.batch_size = 1
    /\ hist.reaped # {}
    /\ \E i \in Expired(wlocal.now) : IdKey(i) \in DOMAIN redis

Stage(rows, t, i) ==
    IF i \notin DOMAIN rows THEN 2
    ELSE IF rows[i].expires_at < t THEN 1 ELSE 0

\* C13: no inbox ever moves to an earlier stage of Active -> PendingReap ->
\* Purged; and while the worker keeps running cycles, every inbox whose
\* expires_at has passed and whose own deletion does not fail is eventually
\* purged from the Durable Store, also when cycles select at most
\* batch_size inboxes and the deletion of another inbox fails.
C13_EventuallyPurged ==
    /\ [][\A i \in ExpiringIds :
             Stage(inboxes, now, i) <= Stage(inboxes', now', i)]_vars
    /\ \A i \in ExpiringIds \ {BadRow} :
          (i \in Expired(now)) ~> (i \notin DOMAIN inboxes)

\* C17: every readable Fast Index key of an existing inbox (inbox:<address>,
\* inbox:id:<id>, inbox:count:<address>) carries a TTL, and that TTL is at
\* most the remaining lifetime expires_at - now of the inbox.
C17_KeysCarryTTL ==
    \A i \in DOMAIN inboxes :
      \A k \in KeysOf(i, inboxes[i].address) :
        Live(k) => /\ redis[k].exp # NoTTL
                   /\ redis[k].exp - now <= inboxes[i].expires_at - now

\* C18: every Message row references an Inbox row of the Durable Store and
\* every Attachment row references a Message row of it, whichever of the
\* reaper, delete_inbox and the admin cleanup deletes an inbox and also
\* while a delivery to that inbox commits its message.
C18_ReferentialIntegrity ==
    /\ \A m \in messages : m.inbox_id \in DOMAIN inboxes
    /\ \A t \in attachments : \E m \in messages : m.id = t.message_id

\* the inbox was deleted while the delivery that had committed a message
\* with an attachment to it was still in flight
C18_Witness ==
    /\ pc[1] \in {"refresh", "get_inbox", "count_commit"}
    /\ local[1].natt >= 1
    /\ \E r \in hist.purged : r.id = local[1].inbox_id
    /\ local[1].inbox_id \notin DOMAIN inboxes
    /\ messages = {}
    /\ attachments = {}

\* C19: no two Inbox rows share an address, however the concurrent
\* create_inbox calls interleave and also when a call has used up its five
\* address regenerations; a readable key inbox:<address> of an address some
\* inbox owns holds the id of that inbox, and a create_inbox call that
\* returns has left inbox:<address> holding the id of the inbox it created.
C19_AddressUnique ==
    /\ [](\A i, j \in DOMAIN inboxes :
            inboxes[i].address = inboxes[j].address => i = j)
    /\ [](\A i \in DOMAIN inboxes :
            Live(AddrKey(inboxes[i].address))
              => RedisGet(AddrKey(inboxes[i].address)) = i)
    /\ [][\A i \in DOMAIN cpc :
            (cpc[i] # "done" /\ cpc'[i] = "done")
              => /\ i \in DOMAIN inboxes'
                 /\ AddrKey(inboxes'[i].address) \in DOMAIN redis'
                 /\ redis'[AddrKey(inboxes'[i].address)].v = i]_vars

\* a call whose regenerated addresses all collided was refused at commit
\* by the unique index, the address staying with the inbox that owns it
C19_Witness ==
    \E i, j \in DOMAIN cpc :
      /\ cpc[j] = "failed"
      /\ clocal[j].retries = AddressRetries
      /\ j \notin DOMAIN inboxes
      /\ cpc[i] = "done"
      /\ i \in DOMAIN inboxes
      /\ inboxes[i].address = clocal[j].address
      /\ Live(AddrKey(clocal[j].address))

\* the value of the counter inbox:count:<address> in the Fast Index rds, 0
\* while the key is absent
CounterOf(rds, a) ==
    IF CountKey(a) \in DOMAIN rds THEN rds[CountKey(a)].v ELSE 0

\* C20: while an inbox exists no step lowers its message_count or its Fast
\* Index counter inbox:count:<address> (concurrent deliveries and
\* delete_message included), and message_count is never negative.
C20_CountersMonotone ==
    /\ [](\A i \in DOMAIN inboxes : inboxes[i].message_count >= 0)
    /\ [][\A i \in DOMAIN inboxes \cap DOMAIN inboxes' :
            /\ inboxes'[i].message_count >= inboxes[i].message_count
            /\ CounterOf(redis', inboxes[i].address)
                 >= CounterOf(redis, inboxes[i].address)]_vars

\* sanitized HTML: no element outside the allow-list and no comment
IsSanitized(h) == \A k \in DOMAIN h : h[k] \notin {"script", "comment"}

\* C21: every HTML body in the Durable Store is the ciphertext of the
\* sanitized parsed HTML body: decrypting it gives sanitize_html(h), which
\* is sanitized HTML, and a message whose parsed HTML body is None or empty
\* has no stored HTML body.
C21_StoredHtmlSanitized ==
    mime.step = "stored" =>
      \A row \in messages :
        IF Truthy(mime.body_html)
        THEN /\ row.body_html_encrypted # Nothing
             /\ ~Decrypt(The(row.body_html_encrypted)).raised
             /\ Decrypt(The(row.body_html_encrypted)).text
                  = SanitizeHtml(The(mime.body_html))
             /\ IsSanitized(Decrypt(The(row.body_html_encrypted)).text)
        ELSE row.body_html_encrypted = Nothing

\* a message whose HTML part holds a script element has been stored
C21_Witness ==
    /\ mime.step = "stored"
    /\ Truthy(mime.body_html)
    /\ ~IsSanitized(The(mime.body_html))
    /\ \E row \in messages : row.body_html_encrypted # Nothing

\* the values encrypt returns
IsCiphertext(c) ==
    /\ c.key = SETTINGS_KEY
    /\ c.hmac_ok
    /\ c.padding_ok
    /\ c.slack = 0
    /\ c.junk = 0
\* the ciphertexts of a Message row and its Attachment rows
CiphertextsOf(row) ==
    row.body_html_encrypted \cup row.body_text_encrypted
      \cup row.raw_email_encrypted
      \cup {t.content_encrypted : t \in AttachmentsOf(row.id)}
\* the encrypted columns of a Message row and its Attachment rows
ColumnsOf(row) ==
    Cardinality(row.body_html_encrypted) + Cardinality(row.body_text_encrypted)
      + Cardinality(row.raw_email_encrypted) + Cardinality(AttachmentsOf(row.id))

\* C22: every Message row holds its raw message encrypted, and its HTML
\* body, text body, raw message and the content of its attachments are in
\* the Durable Store only as values of encrypt, each made by a call of its
\* own (no two columns under one IV) and each decrypting to its plaintext.
C22_OnlyCiphertexts ==
    \A row \in messages :
      /\ row.raw_email_encrypted # Nothing
      /\ \A c \in CiphertextsOf(row) : IsCiphertext(c)
      /\ Cardinality({c.iv : c \in CiphertextsOf(row)}) = ColumnsOf(row)
      /\ Decrypt(The(row.raw_email_encrypted)).text = DecodeReplace(RawEmail)
      /\ row.body_text_encrypted # Nothing
           => Decrypt(The(row.body_text_encrypted)).text = The(mime.body_text)
      /\ \A t \in AttachmentsOf(row.id) :
           \E k \in DOMAIN mime.attachments :
             Decrypt(t.content_encrypted).text = mime.attachments[k].content

\* a message with both bodies and an attachment has been stored
C22_Witness ==
    \E row \in messages :
      /\ row.body_html_encrypted # Nothing
      /\ row.body_text_encrypted # Nothing
      /\ AttachmentsOf(row.id) # {}

\* C23: decrypt(encrypt(P)) = P for every plaintext P, and decrypt of a
\* value that is not what encrypt returns under the key of the service
\* raises EncryptionException and returns no plaintext.
C23_RoundTripAndTamper ==
    vault.step = "decrypted" =>
      IF IsCiphertext(vault.value)
      THEN ~vault.result.raised /\ vault.result.text = vault.value.pt
      ELSE vault.result.raised

\* C24: when a decrypt of a stored body fails during get_message or
\* get_messages, the Message rows are as they were when the request came
\* in (ciphertext columns and is_read), and the reply carries none of the
\* text of the underlying base64 or crypto error.
C24_DecryptFailureOpaque ==
    (reader.pc = "done" /\ reader.failed) =>
       /\ messages = reader.before
       /\ \A text \in reader.reply.detail : text = <<>>

\* the request in flight names a message of another inbox than the one
\* of its token
ForeignRequest ==
    /\ reader.inbox_id # None
    /\ reader.op \in {"get_message", "delete_message"}
    /\ \E m \in reader.before :
          m.id = reader.message_id /\ m.inbox_id # reader.inbox_id

\* C26: a request made with the token of inbox A for a message of another
\* inbox B is refused and leaves that message as it was, unread and
\* undeleted: only messages of A are read or deleted under A's token.
C26_TenantIsolation ==
    (reader.pc = "done" /\ ForeignRequest) =>
       /\ reader.reply.status \in {"403", "404"}
       /\ messages = reader.before

\* C25: for one client IP and within one window of a counter, no more
\* than RATE_LIMIT_PER_MINUTE requests are let through by
\* check_rate_limit and no more than INBOX_CREATION_LIMIT_PER_HOUR by
\* check_inbox_creation_limit, however the requests interleave.
C25_LimitsHold ==
    /\ limiter.passed_rate <= RATE_LIMIT_PER_MINUTE
    /\ limiter.passed_creation <= INBOX_CREATION_LIMIT_PER_HOUR

\* the steps of a message whose bodies have been extracted
AfterBodies == {"bodies", "headers", "attachments", "stored"}
\* the content of the first part of the type in document order, None
\* without such a part
FirstContent(m, ctype) ==
    LET ks == {k \in DOMAIN m.parts : m.parts[k].ctype = ctype}
    IN IF ks = {} THEN Nothing
       ELSE Some(TextOf(m.parts[CHOOSE k \in ks : \A j \in ks : k <= j]).text)

\* C27: of a multipart message the text body is the content of the first
\* text/plain part and the HTML body the content of the first text/html
\* part, whatever follows them and also when that content is the empty
\* string.
C27_FirstMatchWins ==
    (mime.step \in AfterBodies /\ mime.message.is_multipart) =>
       /\ mime.body_text = FirstContent(mime.message, "text/plain")
       /\ mime.body_html = FirstContent(mime.message, "text/html")

\* the steps of a message whose headers have been extracted
AfterHeaders == {"headers", "attachments", "stored"}
\* the allow-list as the specification gives it
SpecAllowList ==
    {"From", "To", "Cc", "Subject", "Date", "Message-ID", "In-Reply-To",
     "References", "Return-Path", "Reply-To"}
\* the names of the list that the message carries with a non-empty value
Carried(m, names) ==
    {n \in names : n \in DOMAIN m.headers /\ m.headers[n] # ""}

\* C28 as stated: the keys of the headers map are those names of the
\* allow-list {From, To, Cc, Subject, Date, Message-ID, In-Reply-To,
\* References, Return-Path, Reply-To} that the message carries with a
\* non-empty value.
C28_AllowListAsStated ==
    mime.step \in AfterHeaders =>
       DOMAIN mime.headers = Carried(mime.message, SpecAllowList)

\* C28: the keys of the headers map are those names of the allow-list
\* {From, To, Cc, Bcc, Subject, Date, Message-ID, In-Reply-To, References,
\* Return-Path, Reply-To} that the message carries with a non-empty
\* value, each with the value the message carries.
C28_HeadersAllowListed ==
    mime.step \in AfterHeaders =>
       /\ DOMAIN mime.headers =
             Carried(mime.message, SpecAllowList \cup {"Bcc"})
       /\ \A n \in DOMAIN mime.headers :
             mime.headers[n] = mime.message.headers[n]

\* headers extracted from a message that carries Subject empty, Bcc and a
\* header outside the list
C28_Witness ==
    /\ mime.step \in AfterHeaders
    /\ DOMAIN mime.message.headers = {"Subject", "Bcc", "X-Mailer"}
    /\ mime.message.headers["Subject"] = ""
    /\ DOMAIN mime.headers = {"Bcc"}

\* the steps of a message whose attachments have been extracted
AfterAttachments == {"attachments", "stored"}
\* a non-multipart part with a Content-Disposition and a filename
NamedFile(part) ==
    part.ctype # "multipart/alternative" /\ part.disposition
    /\ part.filename # ""
\* a named file whose payload decodes to at least one byte
ReadableFile(part) == NamedFile(part) /\ ~part.broken /\ Len(part.body) > 0
\* the attachments are the selected parts, one each, in document order
OnePerPart(atts, files) ==
    /\ Len(atts) = Len(files)
    /\ \A k \in DOMAIN atts :
          /\ atts[k].filename = files[k].filename
          /\ atts[k].size = Len(files[k].body)
\* Scenario C: one text/plain part, one text/html part and one attachment
\* named invoice.pdf
ScenarioC ==
    <<TextPart(<<"T1">>, FALSE), HtmlPart(<<"p", "script">>),
      FilePart(<<"P">>, "invoice.pdf", FALSE)>>
ScenarioCHolds ==
    mime.message.parts = ScenarioC =>
       /\ Truthy(mime.body_text)
       /\ Truthy(mime.body_html)
       /\ Len(mime.attachments) = 1
       /\ mime.attachments[1].filename = "invoice.pdf"
\* every attachment extracted or stored has a size above zero
SizesPositive ==
    /\ \A k \in DOMAIN mime.attachments : mime.attachments[k].size > 0
    /\ \A t \in attachments : t.size_bytes > 0

\* C29 as stated: one attachment for each non-multipart part that has a
\* Content-Disposition and a filename, in document order, and none for
\* other parts; Scenario C gives both bodies and the one attachment
\* invoice.pdf; every attachment has a size above zero.
C29_OnePerNamedPart ==
    mime.step \in AfterAttachments =>
       /\ OnePerPart(mime.attachments, SelectSeq(mime.message.parts, NamedFile))
       /\ ScenarioCHolds
       /\ SizesPositive

\* C29: of a multipart message, one attachment for each non-multipart
\* part that has a Content-Disposition, a filename and a payload that
\* decodes to at least one byte, in document order, and none for other
\* parts or for a message that is not multipart; Scenario C gives both
\* bodies and the one attachment invoice.pdf; every attachment has a size
\* above zero.
C29_OnePerReadablePart ==
    mime.step \in AfterAttachments =>
       /\ OnePerPart(mime.attachments,
                     IF mime.message.is_multipart
                     THEN SelectSeq(mime.message.parts, ReadableFile)
                     ELSE <<>>)
       /\ ScenarioCHolds
       /\ SizesPositive

\* Scenario C has been processed and stored
C29_Witness ==
    /\ mime.step = "stored"
    /\ mime.message.is_multipart
    /\ mime.message.parts = ScenarioC
    /\ \E t \in attachments : t.filename = "invoice.pdf"

\* a part that cannot be decoded: a body that is not in its charset, a
\* file whose payload raises
BadPart(part) == part.undecodable \/ part.broken
\* the steps before and during the extractions of process_message
Extracting == {"parsed", "subject", "bodies", "headers"}

HoldingsOf(inb, msgs, rds, a) ==
    LET ids == {i \in DOMAIN inb : inb[i].address = a}
    IN [rows |-> {<<i, inb[i]>> : i \in ids},
        messages |-> {m \in msgs : m.inbox_id \in ids},
        keys |-> {<<k, rds[k]>> : k \in {AddrKey(a), CountKey(a)} \cap DOMAIN rds}]
\* the first recipient of an envelope, lower-cased
FirstRecipient(e) == Lower(e.rcpt_tos[1])

\* C31: a session without recipients is answered 554 and changes no
\* store; every step of a session with recipients leaves the inboxes,
\* messages and keys of every address but its first recipient
\* (lower-cased) as they were, every Message row it adds is in the inbox
\* of that first recipient, and an accepted session has its row there.
C31_OneRecipient ==
    [][\A d \in Deliveries :
         pc'[d] # pc[d] =>
            IF envelope'[d].rcpt_tos = <<>>
            THEN response'[d] = R554 /\ stores' = stores
            ELSE /\ \A a \in Addresses \ {FirstRecipient(envelope'[d])} :
                       HoldingsOf(inboxes', messages', redis', a)
                          = HoldingsOf(inboxes, messages, redis, a)
                 /\ \A m \in messages' \ messages :
                       inboxes[m.inbox_id].address
                          = FirstRecipient(envelope'[d])
                 /\ response'[d] = R250 =>
                       \E m \in messages' :
                          /\ m.id = d
                          /\ inboxes[m.inbox_id].address
                                = FirstRecipient(envelope'[d])]_vars

\* a session whose envelope lists both inboxes has been accepted, and a
\* session without recipients has been answered
C31_Witness ==
    /\ \E d \in Deliveries :
          /\ response[d] = R250
          /\ Len(envelope[d].rcpt_tos) > 1
          /\ \E m \in messages : m.id = d /\ m.inbox_id = ProvisionedId
    /\ \E d \in Deliveries : response[d] = R554
    /\ SecondId \in DOMAIN inboxes

\* the outcomes of the quota check of session d: the 552 of the quota, or
\* the session goes on to the next check without an answer
QuotaRejects(d) == CheckInboxQuota(d) /\ response'[d] = R552Quota
QuotaAdmits(d) ==
    /\ CheckInboxQuota(d)
    /\ pc'[d] = AfterCheck("quota")
    /\ response'[d] = response[d]
\* the counter of the session's recipient is readable and at the quota
CounterFull(d) ==
    /\ Live(CountKey(local[d].recipient))
    /\ RedisGet(CountKey(local[d].recipient)) >= MAX_EMAILS_PER_INBOX

\* C32: at the quota check, the answer '552 Inbox quota exceeded' is
\* possible exactly when the Fast Index counter of the address is at or
\* above MAX_EMAILS_PER_INBOX; with the key absent the check can only
\* admit, a read that raises admits whatever the counter is, and the
\* check has no third outcome.
C32_QuotaCheck ==
    \A d \in Deliveries :
       pc[d] = "check_inbox_quota" =>
          /\ (ENABLED QuotaRejects(d)) <=> CounterFull(d)
          /\ ENABLED QuotaAdmits(d)
          /\ ~ENABLED (CheckInboxQuota(d) /\ ~QuotaRejects(d) /\ ~QuotaAdmits(d))

\* one session was rejected for the quota and another was accepted
C32_Witness ==
    /\ \E d \in Deliveries : response[d] = R552Quota
    /\ \E d \in Deliveries : response[d] = R250

\* delete_inbox commits the deletion of its inbox in this step
DeleteInboxDone ==
    /\ apc["delete_inbox"] = "commit"
    /\ apc'["delete_inbox"] = "idle"
    /\ DOMAIN inboxes' # DOMAIN inboxes
\* the three Fast Index keys of an inbox, in the order of their removal
InboxKeys(id, address) == <<AddrKey(address), IdKey(id), CountKey(address)>>
\* the inbox and the address delete_inbox is working on
Deleting == alocal["delete_inbox"]

C34_ToAddress ==
    \A m \in messages :
       m.inbox_id \in DOMAIN inboxes =>
          m.to_address = inboxes[m.inbox_id].address

\* C35: no Message row is committed to an inbox whose expires_at has
\* passed at the time of the commit.
C35_NoRowAfterExpiry ==
    [][\A m \in messages' \ messages :
          /\ m.inbox_id \in DOMAIN inboxes
          /\ ~(inboxes[m.inbox_id].expires_at < now)]_vars

\* C36: whenever no delivery is in flight the Fast Index counter
\* inbox:count:<address> (0 when absent) equals Inbox.message_count of the
\* inbox owning the address, and the Fast Index counter never exceeds the
\* durable count.
C36_CountersAgree ==
    \A i \in DOMAIN inboxes :
        /\ (\A d \in Deliveries : pc[d] \in {"idle", "done"}) =>
              CounterOf(redis, inboxes[i].address) = inboxes[i].message_count
        /\ CounterOf(redis, inboxes[i].address) <= inboxes[i].message_count

\* C37: in every reachable state the two Fast Index mappings agree with
\* each other and with the Durable Store, also after create_inbox or
\* delete_inbox failed between its store operations: inbox:<a> = i implies
\* that an Inbox row with id i and address a exists and inbox:id:<i> = a,
\* and inbox:id:<i> = a implies the same row and inbox:<a> = i.  Stated for
\* the states in which no call of create_inbox or delete_inbox is between
\* two of its store operations, which every reading of the claim covers.
C37_MappingsConsistent ==
    (/\ \A j \in InboxIds : cpc[j] \in {"idle", "done", "failed"}
     /\ apc["delete_inbox"] = "idle") =>
        \A a \in Addresses, i \in InboxIds :
            LET forward == Live(AddrKey(a)) /\ RedisGet(AddrKey(a)) = i
                backward == Live(IdKey(i)) /\ RedisGet(IdKey(i)) = a
            IN  (forward \/ backward) =>
                   /\ i \in DOMAIN inboxes
                   /\ inboxes[i].address = a
                   /\ forward
                   /\ backward

\* the reply codes handle_DATA may answer with
ReplyCodes == {250, 451, 550, 552, 554}

\* C38: handle_DATA is total: whatever the envelope and whichever of the
\* Fast Index, the Durable Store, the parser or a metrics recorder fails,
\* the call hands the SMTP transport one response line whose code is 250,
\* 451, 550, 552 or 554, and no exception leaves it.
C38_HandleDATATotal ==
    \A d \in Deliveries :
        /\ smtp[d].at # "raised"
        /\ smtp[d].at = "returned" =>
              /\ smtp[d].line # None
              /\ Code(smtp[d].line) \in ReplyCodes

====
